---- MODULE Spec2Model ----
(***************************************************************************)
(* LedgerPro: a client-side double-entry bookkeeping application.          *)
(*                                                                         *)
(* The model covers the persistent stores of db.js (chart_of_accounts,     *)
(* journal_entries, journal_lines), the UI handlers of the main            *)
(* application that read and write them, and the balance and statement     *)
(* computations.                                                           *)
(*                                                                         *)
(* Conventions                                                             *)
(*  - Amounts are integers counting thousandths of a currency unit, so     *)
(*    the posting tolerance 0.001 is 1 and the statement tolerance 0.01    *)
(*    is 10.                                                               *)
(*  - Identifiers are strings, as in the source.  Utils.uid is modelled    *)
(*    by a counter that never hands out the same identifier twice.         *)
(*  - Account codes are integers standing for the numeric code strings of  *)
(*    the chart ('1000' is 1000); for codes of equal length the            *)
(*    lexicographic order of the strings is the order of the integers.     *)
(*  - A text input of the journal form is a sequence: << >> is the empty   *)
(*    input and <<n>> is the text of the number n.                         *)
(*  - An async handler is a task.  Every await is a step boundary: the     *)
(*    step that resumes a task applies the store request the task was      *)
(*    waiting for and runs the handler up to its next await.               *)
(***************************************************************************)
EXTENDS Integers, Sequences, FiniteSets, TLC

VARIABLES accounts, entries, lines, journalLines, jeDate, jeDesc,
          pdfPreviewData, prevChk, tasks, uidCounter, currentPage, toast, view

vars == <<accounts, entries, lines, journalLines, jeDate, jeDesc,
          pdfPreviewData, prevChk, tasks, uidCounter, currentPage, toast, view>>

stores == <<accounts, entries, lines>>

(***************************************************************************)
(* Bounds of the model.                                                    *)
(***************************************************************************)
MaxUid == 6
MaxTasks == 2
MaxDraftLines == 3
MaxPreview == 1
MaxLedgerLines == 2

(***************************************************************************)
(* Small arithmetic and sequence helpers.                                  *)
(***************************************************************************)
Abs(n) == IF n < 0 THEN -n ELSE n

RECURSIVE SumSeq(_)
SumSeq(s) == IF s = << >> THEN 0 ELSE Head(s) + SumSeq(Tail(s))

Range(s) == {s[i] : i \in 1..Len(s)}

(***************************************************************************)
(* db.js: seed data.  Four rows of SEED_ACCOUNTS are kept: cash, the       *)
(* credit-normal asset, a revenue account and the cost-of-goods-sold       *)
(* expense.  SEED_ENTRIES and SEED_LINES are empty.                        *)
(***************************************************************************)
SEED_ACCOUNTS ==
  << [id |-> "acc_1000", code |-> 1000, type |-> "Asset",   normal |-> "Debit"],
     [id |-> "acc_1700", code |-> 1700, type |-> "Asset",   normal |-> "Credit"],
     [id |-> "acc_4000", code |-> 4000, type |-> "Revenue", normal |-> "Credit"],
     [id |-> "acc_5000", code |-> 5000, type |-> "Expense", normal |-> "Debit"] >>

SEED_ENTRIES == << >>

SEED_LINES == << >>

(***************************************************************************)
(* db.js: the store primitives.  A store is the sequence getAll returns.   *)
(***************************************************************************)
RECURSIVE FindIndex(_, _, _)
FindIndex(store, id, i) ==
  IF i > Len(store) THEN 0
  ELSE IF store[i].id = id THEN i ELSE FindIndex(store, id, i + 1)

\* get(storeName, id): the record, or << >> standing for null
Get(store, id) ==
  LET idx == FindIndex(store, id, 1) IN IF idx > 0 THEN store[idx] ELSE << >>

\* put(storeName, record): upsert by id
Put(store, record) ==
  LET idx == FindIndex(store, record.id, 1)
  IN IF idx > 0 THEN [store EXCEPT ![idx] = record] ELSE Append(store, record)

\* del(storeName, id)
Del(store, id) == SelectSeq(store, LAMBDA r : r.id # id)

(***************************************************************************)
(* Utils.uid(prefix): the n-th identifier handed out.                      *)
(***************************************************************************)
UidDigits == <<"1", "2", "3", "4", "5", "6", "7", "8", "9", "10", "11", "12">>

\* uid handing out the same identifier every time
uid_Repeats(prefix, n) == prefix \o "_" \o UidDigits[1]

uid(prefix, n) == prefix \o "_" \o UidDigits[n]

(***************************************************************************)
(* Tasks: the async handlers in flight.                                    *)
(***************************************************************************)
Slots == 1..MaxTasks

NoTask == [op |-> "none"]

FreeSlot(t) == tasks[t].op = "none"

Pages == {"dashboard", "coa", "journal", "pdf-upload"}

Toast(type, msg) == [type |-> type, msg |-> msg]

\* the two blank lines renderJournal and clearJournal put in the draft
BlankLine == [accountId |-> "", debit |-> << >>, credit |-> << >>]

BlankDraft == <<BlankLine, BlankLine>>

(***************************************************************************)
(* Inputs the user can type or pick.                                       *)
(***************************************************************************)
AccountIdInputs == {"", "acc_1000", "acc_4000"}

AmountInputs == {<< >>, <<1>>, <<2>>}

CodeInputs == {<< >>, <<1000>>, <<1050>>}

NameInputs == {"", "Petty Cash"}

TypeInputs == {"Asset", "Equity"}

NormalInputs == {"Debit", "Credit"}

DateInputs == {"", "2024-01-01"}

DescInputs == {"", "memo"}

\* Utils.today()
today == "2024-01-01"

(***************************************************************************)
(* parseFloat on a journal form input.                                     *)
(***************************************************************************)
\* parseFloat(x) || 0
ParseFloatOr0(x) == IF x = << >> THEN 0 ELSE x[1]

\* parseFloat(x) > 0 (NaN > 0 is false)
ParseFloatPositive(x) == x # << >> /\ x[1] > 0

(***************************************************************************)
(* Initial state: the stores after seedIfEmpty, the application on the     *)
(* dashboard, no draft rendered yet.                                       *)
(***************************************************************************)
NoView == [page |-> "none"]

Init ==
  /\ accounts = SEED_ACCOUNTS
  /\ entries = SEED_ENTRIES
  /\ lines = SEED_LINES
  /\ journalLines = << >>
  /\ jeDate = ""
  /\ jeDesc = ""
  /\ pdfPreviewData = << >>
  /\ prevChk = << >>
  /\ tasks = [t \in Slots |-> NoTask]
  /\ uidCounter = 0
  /\ currentPage = "dashboard"
  /\ toast = Toast("", "")
  /\ view = NoView

\* a handler is started in the lowest free slot
StartSlot(t) == FreeSlot(t) /\ \A u \in Slots : u < t => ~FreeSlot(u)

(***************************************************************************)
(* Aliasing of the draft.  validLines of a running postJournalEntry holds  *)
(* the very objects of journalLines: idx is the position of the object in  *)
(* the current draft array, 0 once the object is no longer in it.          *)
(***************************************************************************)
HasValidLines(tk) == tk.op = "postJournalEntry"

\* journalLines[idx][field] = value, seen through every alias
AliasUpdate(tk, idx, field, value) ==
  IF HasValidLines(tk)
  THEN [tk EXCEPT !.validLines =
         [k \in 1..Len(tk.validLines) |->
            IF tk.validLines[k].idx = idx
            THEN [tk.validLines[k] EXCEPT ![field] = value]
            ELSE tk.validLines[k]]]
  ELSE tk

\* journalLines.splice(idx, 1)
AliasSplice(tk, idx) ==
  IF HasValidLines(tk)
  THEN [tk EXCEPT !.validLines =
         [k \in 1..Len(tk.validLines) |->
            LET l == tk.validLines[k]
            IN IF l.idx = idx THEN [l EXCEPT !.idx = 0]
               ELSE IF l.idx > idx THEN [l EXCEPT !.idx = l.idx - 1]
               ELSE l]]
  ELSE tk

\* journalLines = [ ... ]: a new array of new objects
AliasDetach(tk) ==
  IF HasValidLines(tk)
  THEN [tk EXCEPT !.validLines =
         [k \in 1..Len(tk.validLines) |-> [tk.validLines[k] EXCEPT !.idx = 0]]]
  ELSE tk

(***************************************************************************)
(* Navigation.                                                             *)
(***************************************************************************)
\* loadJournalHistory: the entries whose View and Del buttons the journal
\* page shows
JournalHistory(es) == [page |-> "journal", history |-> {es[i].id : i \in 1..Len(es)}]

\* App.navigate(page) with the renderer it calls
Navigate(page) ==
  /\ currentPage' = page
  /\ IF page = "journal"
     THEN /\ journalLines' = BlankDraft
          /\ jeDate' = today
          /\ jeDesc' = ""
          /\ tasks' = [t \in Slots |-> AliasDetach(tasks[t])]
     ELSE UNCHANGED <<journalLines, jeDate, jeDesc, tasks>>
  /\ IF page = "pdf-upload"
     THEN prevChk' = << >>
     ELSE UNCHANGED prevChk
  /\ view' = IF page = "journal" THEN JournalHistory(entries) ELSE view
  /\ UNCHANGED <<accounts, entries, lines, pdfPreviewData, uidCounter, toast>>

(***************************************************************************)
(* Chart of accounts handlers.                                             *)
(***************************************************************************)
saveNewAccount(t, code, name, type, normal) ==
  /\ currentPage = "coa"
  /\ StartSlot(t)
  /\ IF code = << >> \/ name = ""
     THEN /\ toast' = Toast("error", "Please fill in all fields")
          /\ UNCHANGED <<tasks, uidCounter>>
     ELSE /\ uidCounter < MaxUid
          /\ uidCounter' = uidCounter + 1
          /\ tasks' = [tasks EXCEPT ![t] =
                         [op |-> "saveNewAccount", pc |-> "saveAccount",
                          acc |-> [id |-> uid("acc", uidCounter + 1), code |-> code[1],
                                   type |-> type, normal |-> normal]]]
          /\ UNCHANGED toast
  /\ UNCHANGED <<accounts, entries, lines, journalLines, jeDate, jeDesc,
                 pdfPreviewData, prevChk, currentPage, view>>

\* the continuation shared by saveNewAccount and saveEditAccount after
\* await DB.saveAccount(acc)
saveAccountDone(t) ==
  /\ tasks[t].op \in {"saveNewAccount", "saveEditAccount"}
  /\ tasks[t].pc = "saveAccount"
  /\ accounts' = Put(accounts, tasks[t].acc)
  /\ toast' = Toast("success", IF tasks[t].op = "saveNewAccount"
                               THEN "Account created successfully"
                               ELSE "Account updated")
  /\ currentPage' = "coa"
  /\ tasks' = [tasks EXCEPT ![t] = NoTask]
  /\ UNCHANGED <<entries, lines, journalLines, jeDate, jeDesc,
                 pdfPreviewData, prevChk, uidCounter, view>>

saveEditAccount(t, id) ==
  /\ currentPage = "coa"
  /\ StartSlot(t)
  /\ tasks' = [tasks EXCEPT ![t] = [op |-> "saveEditAccount", pc |-> "getAccount", id |-> id]]
  /\ UNCHANGED <<accounts, entries, lines, journalLines, jeDate, jeDesc,
                 pdfPreviewData, prevChk, uidCounter, currentPage, toast, view>>

\* after await DB.getAccount(id): a null account throws
saveEditAccountGot(t, code, type, normal) ==
  /\ tasks[t].op = "saveEditAccount"
  /\ tasks[t].pc = "getAccount"
  /\ LET acc == Get(accounts, tasks[t].id)
     IN IF acc = << >>
        THEN tasks' = [tasks EXCEPT ![t] = NoTask]
        ELSE tasks' = [tasks EXCEPT ![t] =
                         [op |-> "saveEditAccount", pc |-> "saveAccount",
                          acc |-> [acc EXCEPT !.code = code, !.type = type, !.normal = normal]]]
  /\ UNCHANGED <<accounts, entries, lines, journalLines, jeDate, jeDesc,
                 pdfPreviewData, prevChk, uidCounter, currentPage, toast, view>>

deleteAccount(t, id) ==
  /\ currentPage = "coa"
  /\ StartSlot(t)
  /\ tasks' = [tasks EXCEPT ![t] = [op |-> "deleteAccount", pc |-> "getLines", id |-> id]]
  /\ UNCHANGED <<accounts, entries, lines, journalLines, jeDate, jeDesc,
                 pdfPreviewData, prevChk, uidCounter, currentPage, toast, view>>

\* deleteAccount with the in-use check comparing the wrong field of the line
deleteAccountChecked_WrongField(t, confirm) ==
  /\ tasks[t].op = "deleteAccount"
  /\ tasks[t].pc = "getLines"
  /\ IF \E i \in 1..Len(lines) : lines[i].entryId = tasks[t].id
     THEN /\ toast' = Toast("error", "Cannot delete: account has journal entries")
          /\ tasks' = [tasks EXCEPT ![t] = NoTask]
     ELSE /\ UNCHANGED toast
          /\ IF confirm
             THEN tasks' = [tasks EXCEPT ![t].pc = "deleteAccount"]
             ELSE tasks' = [tasks EXCEPT ![t] = NoTask]
  /\ UNCHANGED <<accounts, entries, lines, journalLines, jeDate, jeDesc,
                 pdfPreviewData, prevChk, uidCounter, currentPage, view>>

\* after await DB.getLines(): the in-use check and the confirm dialog
deleteAccountChecked(t, confirm) ==
  /\ tasks[t].op = "deleteAccount"
  /\ tasks[t].pc = "getLines"
  /\ IF \E i \in 1..Len(lines) : lines[i].accountId = tasks[t].id
     THEN /\ toast' = Toast("error", "Cannot delete: account has journal entries")
          /\ tasks' = [tasks EXCEPT ![t] = NoTask]
     ELSE /\ UNCHANGED toast
          /\ IF confirm
             THEN tasks' = [tasks EXCEPT ![t].pc = "deleteAccount"]
             ELSE tasks' = [tasks EXCEPT ![t] = NoTask]
  /\ UNCHANGED <<accounts, entries, lines, journalLines, jeDate, jeDesc,
                 pdfPreviewData, prevChk, uidCounter, currentPage, view>>

\* after await DB.deleteAccount(id)
deleteAccountDone(t) ==
  /\ tasks[t].op = "deleteAccount"
  /\ tasks[t].pc = "deleteAccount"
  /\ accounts' = Del(accounts, tasks[t].id)
  /\ toast' = Toast("success", "Account deleted")
  /\ currentPage' = "coa"
  /\ tasks' = [tasks EXCEPT ![t] = NoTask]
  /\ UNCHANGED <<entries, lines, journalLines, jeDate, jeDesc,
                 pdfPreviewData, prevChk, uidCounter, view>>

(***************************************************************************)
(* Journal entry form.                                                     *)
(***************************************************************************)
updateJournalLine(idx, field, value) ==
  /\ currentPage = "journal"
  /\ idx \in 1..Len(journalLines)
  /\ journalLines' = [journalLines EXCEPT ![idx][field] = value]
  /\ tasks' = [t \in Slots |-> AliasUpdate(tasks[t], idx, field, value)]
  /\ UNCHANGED <<accounts, entries, lines, jeDate, jeDesc, pdfPreviewData, prevChk,
                 uidCounter, currentPage, toast, view>>

addJournalLine ==
  /\ currentPage = "journal"
  /\ Len(journalLines) < MaxDraftLines
  /\ journalLines' = Append(journalLines, BlankLine)
  /\ UNCHANGED <<accounts, entries, lines, jeDate, jeDesc, pdfPreviewData, prevChk,
                 tasks, uidCounter, currentPage, toast, view>>

\* removeJournalLine without the early return on a draft of two lines
removeJournalLine_NoGuard(idx) ==
  /\ currentPage = "journal"
  /\ idx \in 1..Len(journalLines)
  /\ journalLines' = [k \in 1..(Len(journalLines) - 1) |->
                        IF k < idx THEN journalLines[k] ELSE journalLines[k + 1]]
  /\ tasks' = [t \in Slots |-> AliasSplice(tasks[t], idx)]
  /\ UNCHANGED <<accounts, entries, lines, jeDate, jeDesc, pdfPreviewData, prevChk,
                 uidCounter, currentPage, toast, view>>

removeJournalLine(idx) ==
  /\ currentPage = "journal"
  /\ idx \in 1..Len(journalLines)
  /\ IF Len(journalLines) <= 2
     THEN UNCHANGED <<journalLines, tasks>>
     ELSE /\ journalLines' = [k \in 1..(Len(journalLines) - 1) |->
                                IF k < idx THEN journalLines[k] ELSE journalLines[k + 1]]
          /\ tasks' = [t \in Slots |-> AliasSplice(tasks[t], idx)]
  /\ UNCHANGED <<accounts, entries, lines, jeDate, jeDesc, pdfPreviewData, prevChk,
                 uidCounter, currentPage, toast, view>>

\* the Clear button
clearJournal ==
  /\ currentPage = "journal"
  /\ journalLines' = BlankDraft
  /\ jeDate' = today
  /\ jeDesc' = ""
  /\ tasks' = [t \in Slots |-> AliasDetach(tasks[t])]
  /\ UNCHANGED <<accounts, entries, lines, pdfPreviewData, prevChk,
                 uidCounter, currentPage, toast, view>>

\* typing in the je-date and je-desc inputs
editEntryDetails(date, desc) ==
  /\ currentPage = "journal"
  /\ jeDate' = date
  /\ jeDesc' = desc
  /\ UNCHANGED <<accounts, entries, lines, journalLines, pdfPreviewData, prevChk,
                 tasks, uidCounter, currentPage, toast, view>>

(***************************************************************************)
(* postJournalEntry.                                                       *)
(***************************************************************************)
\* journalLines.reduce((s, l) => s + (parseFloat(l.debit) || 0), 0)
DraftTotalDr(draft) == SumSeq([k \in 1..Len(draft) |-> ParseFloatOr0(draft[k].debit)])

DraftTotalCr(draft) == SumSeq([k \in 1..Len(draft) |-> ParseFloatOr0(draft[k].credit)])

\* updateJournalTotals: the class of the balance-status element
updateJournalTotals(draft) ==
  IF Abs(DraftTotalDr(draft) - DraftTotalCr(draft)) < 1 /\ DraftTotalDr(draft) > 0
  THEN "balance-ok"
  ELSE "balance-err"

\* the filter predicate of validLines
IsValidLine(l) ==
  l.accountId # "" /\ (ParseFloatPositive(l.debit) \/ ParseFloatPositive(l.credit))

\* the positions of the draft lines that pass the filter, in order
RECURSIVE ValidIdx(_, _)
ValidIdx(draft, k) ==
  IF k > Len(draft) THEN << >>
  ELSE IF IsValidLine(draft[k]) THEN <<k>> \o ValidIdx(draft, k + 1)
       ELSE ValidIdx(draft, k + 1)

ValidLines(draft) ==
  LET ix == ValidIdx(draft, 1)
  IN [k \in 1..Len(ix) |->
        [idx |-> ix[k], accountId |-> draft[ix[k]].accountId,
         debit |-> draft[ix[k]].debit, credit |-> draft[ix[k]].credit]]

\* postJournalEntry with the balance check moved behind the count of valid lines
\* and lost on the way
PostError_NoBalanceCheck(date, desc, draft) ==
  IF date = "" \/ desc = "" THEN "Please fill in date and description"
  ELSE IF DraftTotalDr(draft) = 0 THEN "Entry has no amounts"
  ELSE IF Len(ValidIdx(draft, 1)) < 2
       THEN "At least 2 lines with accounts and amounts required"
  ELSE ""

\* the validation message of postJournalEntry, "" when the draft passes
PostError(date, desc, draft) ==
  IF date = "" \/ desc = "" THEN "Please fill in date and description"
  ELSE IF Abs(DraftTotalDr(draft) - DraftTotalCr(draft)) > 1
       THEN "Entry not balanced! Debits must equal Credits"
  ELSE IF DraftTotalDr(draft) = 0 THEN "Entry has no amounts"
  ELSE IF Len(ValidIdx(draft, 1)) < 2
       THEN "At least 2 lines with accounts and amounts required"
  ELSE ""

\* the record handed to DB.saveLine for validLines[i]
LineRecord(tk, i) ==
  [id |-> uid("jl", tk.base + 1 + i), entryId |-> tk.entryId,
   accountId |-> tk.validLines[i].accountId,
   debit |-> ParseFloatOr0(tk.validLines[i].debit),
   credit |-> ParseFloatOr0(tk.validLines[i].credit),
   seq |-> i]

postJournalEntry(t) ==
  /\ currentPage = "journal"
  /\ StartSlot(t)
  /\ LET err == PostError(jeDate, jeDesc, journalLines)
         vl == ValidLines(journalLines)
     IN IF err # ""
        THEN /\ toast' = Toast("error", err)
             /\ UNCHANGED <<tasks, uidCounter>>
        ELSE /\ uidCounter + 1 + Len(vl) <= MaxUid
             /\ uidCounter' = uidCounter + 1 + Len(vl)
             /\ tasks' = [tasks EXCEPT ![t] =
                            [op |-> "postJournalEntry", pc |-> "saveEntry",
                             base |-> uidCounter,
                             entryId |-> uid("je", uidCounter + 1),
                             entry |-> [id |-> uid("je", uidCounter + 1), date |-> jeDate],
                             validLines |-> vl, i |-> 0, pending |-> << >>]]
             /\ UNCHANGED toast
  /\ UNCHANGED <<accounts, entries, lines, journalLines, jeDate, jeDesc,
                 pdfPreviewData, prevChk, currentPage, view>>

\* after await DB.saveEntry(entry): the loop starts and issues the first saveLine
postSavedEntry(t) ==
  /\ tasks[t].op = "postJournalEntry"
  /\ tasks[t].pc = "saveEntry"
  /\ entries' = Put(entries, tasks[t].entry)
  /\ tasks' = [tasks EXCEPT ![t].pc = "saveLine", ![t].i = 1,
                            ![t].pending = LineRecord(tasks[t], 1)]
  /\ UNCHANGED <<accounts, lines, journalLines, jeDate, jeDesc, pdfPreviewData, prevChk,
                 uidCounter, currentPage, toast, view>>

\* after await DB.saveLine(...): the next iteration issues the next saveLine
postSavedLine(t) ==
  /\ tasks[t].op = "postJournalEntry"
  /\ tasks[t].pc = "saveLine"
  /\ tasks[t].i < Len(tasks[t].validLines)
  /\ lines' = Put(lines, tasks[t].pending)
  /\ tasks' = [tasks EXCEPT ![t].i = tasks[t].i + 1,
                            ![t].pending = LineRecord(tasks[t], tasks[t].i + 1)]
  /\ UNCHANGED <<accounts, entries, journalLines, jeDate, jeDesc, pdfPreviewData, prevChk,
                 uidCounter, currentPage, toast, view>>

\* after the last await DB.saveLine(...): success toast, clearJournal(),
\* loadJournalHistory()
postFinished(t) ==
  /\ tasks[t].op = "postJournalEntry"
  /\ tasks[t].pc = "saveLine"
  /\ tasks[t].i = Len(tasks[t].validLines)
  /\ lines' = Put(lines, tasks[t].pending)
  /\ toast' = Toast("success", "Journal entry posted successfully!")
  /\ journalLines' = BlankDraft
  /\ jeDate' = today
  /\ jeDesc' = ""
  /\ tasks' = [u \in Slots |-> IF u = t THEN NoTask ELSE AliasDetach(tasks[u])]
  /\ view' = JournalHistory(entries)
  /\ UNCHANGED <<accounts, entries, pdfPreviewData, prevChk, uidCounter, currentPage>>

(***************************************************************************)
(* deleteEntry.                                                            *)
(***************************************************************************)
deleteEntry(t, id, confirm) ==
  /\ currentPage = "journal"
  /\ view.page = "journal"
  /\ id \in view.history
  /\ StartSlot(t)
  /\ IF confirm
     THEN tasks' = [tasks EXCEPT ![t] =
                      [op |-> "deleteEntry", pc |-> "getAll", id |-> id, toDelete |-> << >>]]
     ELSE UNCHANGED tasks
  /\ UNCHANGED <<accounts, entries, lines, journalLines, jeDate, jeDesc,
                 pdfPreviewData, prevChk, uidCounter, currentPage, toast, view>>

\* DB.deleteLinesForEntry after await getAll(STORES.LINES)
deleteEntryGotLines(t) ==
  /\ tasks[t].op = "deleteEntry"
  /\ tasks[t].pc = "getAll"
  /\ LET td == SelectSeq(lines, LAMBDA l : l.entryId = tasks[t].id)
     IN tasks' = [tasks EXCEPT ![t].toDelete = [k \in 1..Len(td) |-> td[k].id],
                               ![t].pc = IF td = << >> THEN "deleteEntry" ELSE "del"]
  /\ UNCHANGED <<accounts, entries, lines, journalLines, jeDate, jeDesc,
                 pdfPreviewData, prevChk, uidCounter, currentPage, toast, view>>

\* DB.deleteLinesForEntry after await del(STORES.LINES, l.id)
deleteEntryDeletedLine(t) ==
  /\ tasks[t].op = "deleteEntry"
  /\ tasks[t].pc = "del"
  /\ lines' = Del(lines, Head(tasks[t].toDelete))
  /\ tasks' = [tasks EXCEPT ![t].toDelete = Tail(tasks[t].toDelete),
                            ![t].pc = IF Len(tasks[t].toDelete) = 1 THEN "deleteEntry" ELSE "del"]
  /\ UNCHANGED <<accounts, entries, journalLines, jeDate, jeDesc,
                 pdfPreviewData, prevChk, uidCounter, currentPage, toast, view>>

\* after await DB.deleteEntry(id)
deleteEntryDone(t) ==
  /\ tasks[t].op = "deleteEntry"
  /\ tasks[t].pc = "deleteEntry"
  /\ entries' = Del(entries, tasks[t].id)
  /\ toast' = Toast("success", "Entry deleted")
  /\ tasks' = [tasks EXCEPT ![t] = NoTask]
  /\ view' = JournalHistory(entries')
  /\ UNCHANGED <<accounts, lines, journalLines, jeDate, jeDesc,
                 pdfPreviewData, prevChk, uidCounter, currentPage>>

(***************************************************************************)
(* PDF import: PDFParser.mapToJournalEntries and importSelectedEntries.    *)
(* A classified item is [category, amount]; an account that was not found  *)
(* (undefined) is << >>.                                                   *)
(***************************************************************************)
ItemInputs == {[category |-> c, amount |-> 1000] : c \in {"Asset", "Liability", "Revenue", "Expense"}}

\* accounts.find(pred): the first account whose position is in hits, or undefined
RECURSIVE FindFirst(_, _, _)
FindFirst(accs, hits, i) ==
  IF i > Len(accs) THEN << >>
  ELSE IF i \in hits THEN accs[i] ELSE FindFirst(accs, hits, i + 1)

\* a || accounts[0]
OrFirst(a, accs) == IF a # << >> THEN a ELSE IF accs = << >> THEN << >> ELSE accs[1]

\* mapItem with the two sides of an Expense item exchanged
mapItem_ExpenseSwapped(item, accs) ==
  LET ix == 1..Len(accs)
      cash == FindFirst(accs, {i \in ix : accs[i].code = 1000}, 1)
      other == FindFirst(accs, {i \in ix : accs[i].type = "Asset" /\ accs[i].code # 1000}, 1)
      liab == FindFirst(accs, {i \in ix : accs[i].type = "Liability"}, 1)
      rev == FindFirst(accs, {i \in ix : accs[i].type = "Revenue"}, 1)
      exp == FindFirst(accs, {i \in ix : accs[i].type = "Expense"}, 1)
      pair == CASE item.category = "Asset" -> <<OrFirst(other, accs), cash>>
                [] item.category = "Liability" -> <<cash, OrFirst(liab, accs)>>
                [] item.category = "Revenue" -> <<cash, OrFirst(rev, accs)>>
                [] item.category = "Expense" -> <<cash, OrFirst(exp, accs)>>
                [] OTHER -> << << >>, << >> >>
  IN [amount |-> item.amount, category |-> item.category,
      debitAccount |-> pair[1], creditAccount |-> pair[2]]

\* classified.map(item => ...) of mapToJournalEntries for one item
mapItem(item, accs) ==
  LET ix == 1..Len(accs)
      cash == FindFirst(accs, {i \in ix : accs[i].code = 1000}, 1)
      other == FindFirst(accs, {i \in ix : accs[i].type = "Asset" /\ accs[i].code # 1000}, 1)
      liab == FindFirst(accs, {i \in ix : accs[i].type = "Liability"}, 1)
      rev == FindFirst(accs, {i \in ix : accs[i].type = "Revenue"}, 1)
      exp == FindFirst(accs, {i \in ix : accs[i].type = "Expense"}, 1)
      pair == CASE item.category = "Asset" -> <<OrFirst(other, accs), cash>>
                [] item.category = "Liability" -> <<cash, OrFirst(liab, accs)>>
                [] item.category = "Revenue" -> <<cash, OrFirst(rev, accs)>>
                [] item.category = "Expense" -> <<OrFirst(exp, accs), cash>>
                [] OTHER -> << << >>, << >> >>
  IN [amount |-> item.amount, category |-> item.category,
      debitAccount |-> pair[1], creditAccount |-> pair[2]]

mapToJournalEntries(classified, accs) ==
  [k \in 1..Len(classified) |-> mapItem(classified[k], accs)]

\* handlePDFUpload once the text is extracted and classified
handlePDFUpload(classified) ==
  /\ currentPage = "pdf-upload"
  /\ IF Len(classified) = 0
     THEN /\ toast' = Toast("warning", "No recognizable transactions found in PDF.")
          /\ UNCHANGED <<pdfPreviewData, prevChk>>
     ELSE /\ pdfPreviewData' = mapToJournalEntries(classified, accounts)
          /\ prevChk' = [k \in 1..Len(classified) |-> TRUE]
          /\ toast' = Toast("success", "Found potential transaction(s)")
  /\ UNCHANGED <<accounts, entries, lines, journalLines, jeDate, jeDesc,
                 tasks, uidCounter, currentPage, view>>

\* clicking one preview checkbox
togglePreview(idx) ==
  /\ currentPage = "pdf-upload"
  /\ idx \in 1..Len(prevChk)
  /\ prevChk' = [prevChk EXCEPT ![idx] = ~prevChk[idx]]
  /\ UNCHANGED <<accounts, entries, lines, journalLines, jeDate, jeDesc,
                 pdfPreviewData, tasks, uidCounter, currentPage, toast, view>>

selectAllPreviews(state) ==
  /\ currentPage = "pdf-upload"
  /\ prevChk' = [k \in 1..Len(prevChk) |->
                   IF k <= Len(pdfPreviewData) THEN state ELSE prevChk[k]]
  /\ UNCHANGED <<accounts, entries, lines, journalLines, jeDate, jeDesc,
                 pdfPreviewData, tasks, uidCounter, currentPage, toast, view>>

\* pdfPreviewData.filter((_, idx) => chk && chk.checked)
SelectedPreviews ==
  LET ix == SelectSeq([k \in 1..Len(pdfPreviewData) |-> k],
                      LAMBDA k : k <= Len(prevChk) /\ prevChk[k])
  IN [k \in 1..Len(ix) |-> pdfPreviewData[ix[k]]]

Importable(e) == e.debitAccount # << >> /\ e.creditAccount # << >>

\* the first position after k whose candidate is not skipped by continue, or 0
RECURSIVE NextImportable(_, _)
NextImportable(selected, k) ==
  IF k + 1 > Len(selected) THEN 0
  ELSE IF Importable(selected[k + 1]) THEN k + 1 ELSE NextImportable(selected, k + 1)

\* Toast.success(`${selected.length} entr... imported successfully!`)
ImportToast(n) == [type |-> "success", msg |-> "imported successfully!", count |-> n]

\* the tail of importSelectedEntries after its loop
importTail(selected) ==
  /\ toast' = ImportToast(Len(selected))
  /\ pdfPreviewData' = << >>

importSelectedEntries(t) ==
  /\ currentPage = "pdf-upload"
  /\ StartSlot(t)
  /\ LET selected == SelectedPreviews
         first == NextImportable(selected, 0)
         need == 3 * Len(SelectSeq(selected, Importable))
     IN IF selected = << >>
        THEN /\ toast' = Toast("warning", "No entries selected")
             /\ UNCHANGED <<tasks, uidCounter, pdfPreviewData>>
        ELSE IF first = 0
        THEN /\ importTail(selected)
             /\ UNCHANGED <<tasks, uidCounter>>
        ELSE /\ uidCounter + need <= MaxUid
             /\ uidCounter' = uidCounter + need
             /\ tasks' = [tasks EXCEPT ![t] =
                            [op |-> "importSelectedEntries", pc |-> "saveEntry",
                             selected |-> selected, k |-> first, base |-> uidCounter,
                             entryId |-> uid("je", uidCounter + 1)]]
             /\ UNCHANGED <<toast, pdfPreviewData>>
  /\ UNCHANGED <<accounts, entries, lines, journalLines, jeDate, jeDesc,
                 prevChk, currentPage, view>>

\* after await DB.saveEntry({...})
importSavedEntry(t) ==
  /\ tasks[t].op = "importSelectedEntries"
  /\ tasks[t].pc = "saveEntry"
  /\ entries' = Put(entries, [id |-> tasks[t].entryId, date |-> today])
  /\ tasks' = [tasks EXCEPT ![t].pc = "saveLine1"]
  /\ UNCHANGED <<accounts, lines, journalLines, jeDate, jeDesc, pdfPreviewData, prevChk,
                 uidCounter, currentPage, toast, view>>

\* after the first await DB.saveLine: the debit line is stored
importSavedDebit(t) ==
  /\ tasks[t].op = "importSelectedEntries"
  /\ tasks[t].pc = "saveLine1"
  /\ LET e == tasks[t].selected[tasks[t].k]
     IN lines' = Put(lines, [id |-> uid("jl", tasks[t].base + 2), entryId |-> tasks[t].entryId,
                             accountId |-> e.debitAccount.id,
                             debit |-> e.amount, credit |-> 0, seq |-> 1])
  /\ tasks' = [tasks EXCEPT ![t].pc = "saveLine2"]
  /\ UNCHANGED <<accounts, entries, journalLines, jeDate, jeDesc, pdfPreviewData, prevChk,
                 uidCounter, currentPage, toast, view>>

\* after the second await DB.saveLine: the credit line is stored and the loop
\* goes on to the next candidate or ends
importSavedCredit(t) ==
  /\ tasks[t].op = "importSelectedEntries"
  /\ tasks[t].pc = "saveLine2"
  /\ LET e == tasks[t].selected[tasks[t].k]
         nxt == NextImportable(tasks[t].selected, tasks[t].k)
     IN /\ lines' = Put(lines, [id |-> uid("jl", tasks[t].base + 3), entryId |-> tasks[t].entryId,
                                accountId |-> e.creditAccount.id,
                                debit |-> 0, credit |-> e.amount, seq |-> 2])
        /\ IF nxt = 0
           THEN /\ importTail(tasks[t].selected)
                /\ tasks' = [tasks EXCEPT ![t] = NoTask]
           ELSE /\ tasks' = [tasks EXCEPT ![t].pc = "saveEntry", ![t].k = nxt,
                                          ![t].base = tasks[t].base + 3,
                                          ![t].entryId = uid("je", tasks[t].base + 4)]
                /\ UNCHANGED <<toast, pdfPreviewData>>
  /\ UNCHANGED <<accounts, entries, journalLines, jeDate, jeDesc, prevChk,
                 uidCounter, currentPage, view>>

(***************************************************************************)
(* A store request can fail (idbRequest rejects on req.onerror): no        *)
(* handler catches the rejection, so the handler stops where it awaits.    *)
(***************************************************************************)
requestFails(t) ==
  /\ tasks[t].op # "none"
  /\ tasks' = [tasks EXCEPT ![t] = NoTask]
  /\ UNCHANGED <<accounts, entries, lines, journalLines, jeDate, jeDesc,
                 pdfPreviewData, prevChk, uidCounter, currentPage, toast, view>>

(***************************************************************************)
(* The application.                                                        *)
(***************************************************************************)
AccountIds == {accounts[i].id : i \in 1..Len(accounts)}

EntryIds == {entries[i].id : i \in 1..Len(entries)}

PreviewInputs == UNION {[1..n -> ItemInputs] : n \in 0..MaxPreview}

(***************************************************************************)
(* Balances: DB.getAccountBalances and PDFReport._getBalance.  balanceMap  *)
(* is kept as the sequence Object.values returns, one record per account   *)
(* in insertion order.  Stored amounts are numbers, so (l.debit || 0) is   *)
(* l.debit.                                                                *)
(***************************************************************************)
\* the body of lines.forEach without its guard: an unknown accountId gets a
\* record of its own
AddLine_NoOrphanGuard(balanceMap, l) ==
  LET k == FindIndex(balanceMap, l.accountId, 1)
  IN IF k = 0
     THEN Append(balanceMap, [id |-> l.accountId, code |-> 0, type |-> "", normal |-> "",
                              computed |-> l.debit - l.credit])
     ELSE [balanceMap EXCEPT ![k].computed = @ + l.debit - l.credit]

\* the body of lines.forEach
AddLine(balanceMap, l) ==
  LET k == FindIndex(balanceMap, l.accountId, 1)
  IN IF k = 0
     THEN balanceMap
     ELSE [balanceMap EXCEPT ![k].computed = @ + l.debit - l.credit]

RECURSIVE AddLines(_, _, _)
AddLines(balanceMap, ls, k) ==
  IF k > Len(ls) THEN balanceMap
  ELSE AddLines(AddLine(balanceMap, ls[k]), ls, k + 1)

\* getAccountBalances returning the raw computed value for every account
getAccountBalances_NoSignFlip(accs, ls) ==
  LET balanceMap == AddLines([i \in 1..Len(accs) |->
                                [id |-> accs[i].id, code |-> accs[i].code,
                                 type |-> accs[i].type, normal |-> accs[i].normal,
                                 computed |-> 0]], ls, 1)
  IN [i \in 1..Len(balanceMap) |->
        [id |-> balanceMap[i].id, code |-> balanceMap[i].code,
         type |-> balanceMap[i].type, normal |-> balanceMap[i].normal,
         computed |-> balanceMap[i].computed,
         balance |-> balanceMap[i].computed]]

getAccountBalances(accs, ls) ==
  LET balanceMap == AddLines([i \in 1..Len(accs) |->
                                [id |-> accs[i].id, code |-> accs[i].code,
                                 type |-> accs[i].type, normal |-> accs[i].normal,
                                 computed |-> 0]], ls, 1)
  IN [i \in 1..Len(balanceMap) |->
        [id |-> balanceMap[i].id, code |-> balanceMap[i].code,
         type |-> balanceMap[i].type, normal |-> balanceMap[i].normal,
         computed |-> balanceMap[i].computed,
         balance |-> IF balanceMap[i].normal = "Credit"
                     THEN -balanceMap[i].computed
                     ELSE balanceMap[i].computed]]

\* PDFReport._getBalance applying the sign flip to debit-normal accounts
_getBalance_WrongSide(account, ls) ==
  LET accountLines == SelectSeq(ls, LAMBDA l : l.accountId = account.id)
      computed == SumSeq([k \in 1..Len(accountLines) |->
                            accountLines[k].debit - accountLines[k].credit])
  IN IF account.normal = "Debit" THEN -computed ELSE computed

\* PDFReport._getBalance
_getBalance(account, ls) ==
  LET accountLines == SelectSeq(ls, LAMBDA l : l.accountId = account.id)
      computed == SumSeq([k \in 1..Len(accountLines) |->
                            accountLines[k].debit - accountLines[k].credit])
  IN IF account.normal = "Credit" THEN -computed ELSE computed

(***************************************************************************)
(* Report pages.  A renderer reads the stores and writes the page; what it *)
(* wrote is kept in view.  Codes are four-digit strings in the program, so *)
(* localeCompare orders them as the integers do; Array.sort is stable.     *)
(***************************************************************************)
OfType(accs, type) == SelectSeq(accs, LAMBDA a : a.type = type)

\* the position Array.sort gives element i of s: after every element with a
\* smaller code and after the earlier elements with the same code
RankByCode(s, i) ==
  Cardinality({j \in 1..Len(s) : s[j].code < s[i].code \/ (s[j].code = s[i].code /\ j <= i)})

SortByCode(s) ==
  [p \in 1..Len(s) |-> s[CHOOSE i \in 1..Len(s) : RankByCode(s, i) = p]]

BalanceRows(accs, ls) ==
  [i \in 1..Len(accs) |-> [id |-> accs[i].id, bal |-> _getBalance(accs[i], ls)]]

SumBal(rows) == SumSeq([i \in 1..Len(rows) |-> rows[i].bal])

\* App.navigate('coa'): renderCOA shows acc.balance of getAccountBalances
renderCOA ==
  /\ currentPage' = "coa"
  /\ view' = [page |-> "coa", balances |-> getAccountBalances(accounts, lines)]
  /\ UNCHANGED <<accounts, entries, lines, journalLines, jeDate, jeDesc,
                 pdfPreviewData, prevChk, tasks, uidCounter, toast>>

\* App.navigate('balance-sheet'): renderBalanceSheet
renderBalanceSheet ==
  LET accs == getAccountBalances(accounts, lines)
      assetRows == BalanceRows(SortByCode(OfType(accs, "Asset")), lines)
      liabRows == BalanceRows(SortByCode(OfType(accs, "Liability")), lines)
      eqRows == BalanceRows(SortByCode(OfType(accs, "Equity")), lines)
      totalAssets == SumBal(assetRows)
      totalLiab == SumBal(liabRows)
      netInc == SumBal(BalanceRows(OfType(accs, "Revenue"), lines))
                - SumBal(BalanceRows(OfType(accs, "Expense"), lines))
      totalEquity == SumBal(eqRows) + netInc
      totalLiabEquity == totalLiab + totalEquity
  IN /\ currentPage' = "balance-sheet"
     /\ view' = [page |-> "balance-sheet",
                 assetRows |-> assetRows, liabRows |-> liabRows, eqRows |-> eqRows,
                 netInc |-> netInc,
                 totalAssets |-> totalAssets, totalLiabEquity |-> totalLiabEquity,
                 balanced |-> Abs(totalAssets - totalLiabEquity) < 10]
     /\ UNCHANGED <<accounts, entries, lines, journalLines, jeDate, jeDesc,
                    pdfPreviewData, prevChk, tasks, uidCounter, toast>>

(***************************************************************************)
(* Trial balance: renderTrialBalance on screen and the 'trial' branch of   *)
(* PDFReport.generate.                                                     *)
(***************************************************************************)
\* the body of allLines.forEach in renderTrialBalance
AddTotals(acctTotals, l) ==
  LET k == FindIndex(acctTotals, l.accountId, 1)
  IN IF k = 0
     THEN acctTotals
     ELSE [acctTotals EXCEPT ![k].totalDr = @ + l.debit, ![k].totalCr = @ + l.credit]

RECURSIVE AddAllTotals(_, _, _)
AddAllTotals(acctTotals, ls, k) ==
  IF k > Len(ls) THEN acctTotals
  ELSE AddAllTotals(AddTotals(acctTotals, ls[k]), ls, k + 1)

\* activeAccounts of renderTrialBalance
ActiveAccounts(accs, ls) ==
  LET acctTotals == AddAllTotals([i \in 1..Len(accs) |->
                                    [id |-> accs[i].id, code |-> accs[i].code,
                                     type |-> accs[i].type, normal |-> accs[i].normal,
                                     totalDr |-> 0, totalCr |-> 0]], ls, 1)
  IN SortByCode(SelectSeq(acctTotals, LAMBDA a : a.totalDr > 0 \/ a.totalCr > 0))

\* activeAccounts.reduce((s, a) => s + a.totalDr, 0)
SumTotalDr(rows) == SumSeq([i \in 1..Len(rows) |-> rows[i].totalDr])

\* activeAccounts.reduce((s, a) => s + a.totalCr, 0)
SumTotalCr(rows) == SumSeq([i \in 1..Len(rows) |-> rows[i].totalCr])

\* App.navigate('trial-balance'): renderTrialBalance
renderTrialBalance ==
  LET activeAccounts == ActiveAccounts(accounts, lines)
      totalDr == SumTotalDr(activeAccounts)
      totalCr == SumTotalCr(activeAccounts)
  IN /\ currentPage' = "trial-balance"
     /\ view' = [page |-> "trial-balance", rows |-> activeAccounts,
                 totalDr |-> totalDr, totalCr |-> totalCr,
                 balanced |-> Abs(totalDr - totalCr) < 10]
     /\ UNCHANGED <<accounts, entries, lines, journalLines, jeDate, jeDesc,
                    pdfPreviewData, prevChk, tasks, uidCounter, toast>>

\* acctTotals[id] of the 'trial' branch of PDFReport.generate
PdfAcctTotals(id, ls) ==
  [dr |-> SumSeq([k \in 1..Len(ls) |-> IF ls[k].accountId = id THEN ls[k].debit ELSE 0]),
   cr |-> SumSeq([k \in 1..Len(ls) |-> IF ls[k].accountId = id THEN ls[k].credit ELSE 0])]

\* if (t.dr > 0) totalDr += t.dr
PdfTotalDr(rows) == SumSeq([i \in 1..Len(rows) |-> IF rows[i].dr > 0 THEN rows[i].dr ELSE 0])

\* if (t.cr > 0) totalCr += t.cr
PdfTotalCr(rows) == SumSeq([i \in 1..Len(rows) |-> IF rows[i].cr > 0 THEN rows[i].cr ELSE 0])

PdfTrialRows(listed, ls) ==
  [i \in 1..Len(listed) |->
     [id |-> listed[i].id, dr |-> PdfAcctTotals(listed[i].id, ls).dr,
      cr |-> PdfAcctTotals(listed[i].id, ls).cr]]

\* the 'trial' branch of PDFReport.generate: acctTotals is keyed by the
\* accountId of the lines, and a row is printed for every account that has
\* one
PdfTrial(accs, ls) ==
  LET listed == SortByCode(SelectSeq(accs, LAMBDA a :
                             \E k \in 1..Len(ls) : ls[k].accountId = a.id))
  IN [page |-> "pdf-trial", rows |-> PdfTrialRows(listed, ls),
      totalDr |-> PdfTotalDr(PdfTrialRows(listed, ls)),
      totalCr |-> PdfTotalCr(PdfTrialRows(listed, ls))]

(***************************************************************************)
(* Income statement: renderIncomeStatement on screen and the 'income'      *)
(* branch of PDFReport.generate.  The cost-of-goods-sold account is found  *)
(* by its code, '5000'.                                                    *)
(***************************************************************************)
\* renderIncomeStatement totalling the raw (debit - credit) value of the
\* revenue accounts
renderIncomeStatement_RawRevenue ==
  LET accs == getAccountBalances(accounts, lines)
      revenues == SortByCode(OfType(accs, "Revenue"))
      expenses == SortByCode(OfType(accs, "Expense"))
      revRows == [i \in 1..Len(revenues) |-> [id |-> revenues[i].id, bal |-> revenues[i].computed]]
      totalRev == SumBal(revRows)
      cogs == FindFirst(expenses, {i \in 1..Len(expenses) : expenses[i].code = 5000}, 1)
      totalCOGS == IF cogs # << >> THEN _getBalance(cogs, lines) ELSE 0
      opExRows == BalanceRows(SelectSeq(expenses, LAMBDA a : a.code # 5000), lines)
      totalOpEx == SumBal(opExRows)
  IN /\ currentPage' = "income-statement"
     /\ view' = [page |-> "income-statement", revRows |-> revRows, opExRows |-> opExRows,
                 totalRev |-> totalRev, totalCOGS |-> totalCOGS, totalOpEx |-> totalOpEx,
                 grossProfit |-> totalRev - totalCOGS,
                 netIncome |-> totalRev - totalCOGS - totalOpEx]
     /\ UNCHANGED <<accounts, entries, lines, journalLines, jeDate, jeDesc,
                    pdfPreviewData, prevChk, tasks, uidCounter, toast>>

\* App.navigate('income-statement'): renderIncomeStatement
renderIncomeStatement ==
  LET accs == getAccountBalances(accounts, lines)
      revenues == SortByCode(OfType(accs, "Revenue"))
      expenses == SortByCode(OfType(accs, "Expense"))
      revRows == BalanceRows(revenues, lines)
      totalRev == SumBal(revRows)
      cogs == FindFirst(expenses, {i \in 1..Len(expenses) : expenses[i].code = 5000}, 1)
      totalCOGS == IF cogs # << >> THEN _getBalance(cogs, lines) ELSE 0
      opExRows == BalanceRows(SelectSeq(expenses, LAMBDA a : a.code # 5000), lines)
      totalOpEx == SumBal(opExRows)
  IN /\ currentPage' = "income-statement"
     /\ view' = [page |-> "income-statement", revRows |-> revRows, opExRows |-> opExRows,
                 totalRev |-> totalRev, totalCOGS |-> totalCOGS, totalOpEx |-> totalOpEx,
                 grossProfit |-> totalRev - totalCOGS,
                 netIncome |-> totalRev - totalCOGS - totalOpEx]
     /\ UNCHANGED <<accounts, entries, lines, journalLines, jeDate, jeDesc,
                    pdfPreviewData, prevChk, tasks, uidCounter, toast>>

\* the 'income' branch of PDFReport.generate; rows with a zero balance are
\* not printed and add nothing
PdfIncome(accs, ls) ==
  LET revenues == OfType(accs, "Revenue")
      expenses == OfType(accs, "Expense")
      totalRev == SumBal(BalanceRows(revenues, ls))
      cogs == FindFirst(accs, {i \in 1..Len(accs) : accs[i].code = 5000}, 1)
      cogsBal == IF cogs # << >> THEN _getBalance(cogs, ls) ELSE 0
      totalExp == cogsBal + SumBal(BalanceRows(SelectSeq(expenses, LAMBDA a : a.code # 5000), ls))
  IN [page |-> "pdf-income", totalRev |-> totalRev, cogsBal |-> cogsBal,
      totalExp |-> totalExp, netIncome |-> totalRev - totalExp]

\* the 'balance' branch of PDFReport.generate
PdfBalance(accs, ls) ==
  LET totalAssets == SumBal(BalanceRows(OfType(accs, "Asset"), ls))
      totalLiab == SumBal(BalanceRows(OfType(accs, "Liability"), ls))
      netInc == SumBal(BalanceRows(OfType(accs, "Revenue"), ls))
                - SumBal(BalanceRows(OfType(accs, "Expense"), ls))
      totalEq == SumBal(BalanceRows(OfType(accs, "Equity"), ls)) + netInc
  IN [page |-> "pdf-balance", totalAssets |-> totalAssets, netInc |-> netInc,
      totalLiabEquity |-> totalLiab + totalEq]

(***************************************************************************)
(* General ledger: renderGLData on screen and the 'ledger' branch of       *)
(* PDFReport.generate.  Dates are ISO strings compared as strings; the     *)
(* model holds the empty string and one date.                              *)
(***************************************************************************)
GLDateInputs == {"", today}

\* a < b on the strings of GLDateInputs
DateLess(a, b) == a = "" /\ b # ""

\* the date filter of renderGLData on one line
InDateRange(es, l, fromDate, toDate) ==
  LET entry == Get(es, l.entryId)
  IN IF entry = << >> THEN FALSE
     ELSE IF fromDate # "" /\ DateLess(entry.date, fromDate) THEN FALSE
     ELSE IF toDate # "" /\ DateLess(toDate, entry.date) THEN FALSE
     ELSE TRUE

\* accLines.map of renderGLData from line k on, runBal being the balance
\* carried so far
RECURSIVE GLRows(_, _, _, _)
GLRows(accLines, k, runBal, normal) ==
  IF k > Len(accLines) THEN << >>
  ELSE <<[lineId |-> accLines[k].id, debit |-> accLines[k].debit,
          credit |-> accLines[k].credit,
          balance |-> IF normal = "Credit"
                      THEN -(runBal + accLines[k].debit - accLines[k].credit)
                      ELSE runBal + accLines[k].debit - accLines[k].credit]>>
       \o GLRows(accLines, k + 1, runBal + accLines[k].debit - accLines[k].credit, normal)

\* accLines.forEach of the 'ledger' branch of PDFReport.generate
RECURSIVE PdfLedgerRows(_, _, _)
PdfLedgerRows(accLines, k, runBal) ==
  IF k > Len(accLines) THEN << >>
  ELSE <<[lineId |-> accLines[k].id, debit |-> accLines[k].debit,
          credit |-> accLines[k].credit,
          balance |-> runBal + accLines[k].debit - accLines[k].credit]>>
       \o PdfLedgerRows(accLines, k + 1, runBal + accLines[k].debit - accLines[k].credit)

\* the lines renderGLData lists for one account
GLLines(acc, es, ls, fromDate, toDate) ==
  LET accLines == SelectSeq(ls, LAMBDA l : l.accountId = acc.id)
  IN IF fromDate # "" \/ toDate # ""
     THEN SelectSeq(accLines, LAMBDA l : InDateRange(es, l, fromDate, toDate))
     ELSE accLines

\* renderGLData with the values of the three filter controls
renderGLData(filterAcct, fromDate, toDate) ==
  LET sorted == SortByCode(accounts)
      filteredAccounts == IF filterAcct # ""
                          THEN SelectSeq(sorted, LAMBDA a : a.id = filterAcct)
                          ELSE sorted
      shown == SelectSeq(filteredAccounts,
                         LAMBDA a : GLLines(a, entries, lines, fromDate, toDate) # << >>)
  IN /\ currentPage' = "general-ledger"
     /\ view' = [page |-> "general-ledger", filterAcct |-> filterAcct,
                 fromDate |-> fromDate, toDate |-> toDate,
                 sections |-> [i \in 1..Len(shown) |->
                    [id |-> shown[i].id,
                     rows |-> GLRows(GLLines(shown[i], entries, lines, fromDate, toDate),
                                     1, 0, shown[i].normal)]]]
     /\ UNCHANGED <<accounts, entries, lines, journalLines, jeDate, jeDesc,
                    pdfPreviewData, prevChk, tasks, uidCounter, toast>>

\* the 'ledger' branch of PDFReport.generate
PdfLedger(accs, ls) ==
  LET shown == SelectSeq(accs, LAMBDA a : \E k \in 1..Len(ls) : ls[k].accountId = a.id)
  IN [page |-> "pdf-ledger",
      sections |-> [i \in 1..Len(shown) |->
         [id |-> shown[i].id,
          rows |-> PdfLedgerRows(SelectSeq(ls, LAMBDA l : l.accountId = shown[i].id), 1, 0)]]]

\* PDFReport.generate(type): the document it saves
generate(type) ==
  /\ view' = CASE type = "income" -> PdfIncome(getAccountBalances(accounts, lines), lines)
               [] type = "balance" -> PdfBalance(getAccountBalances(accounts, lines), lines)
               [] type = "trial" -> PdfTrial(getAccountBalances(accounts, lines), lines)
               [] type = "ledger" -> PdfLedger(getAccountBalances(accounts, lines), lines)
  /\ toast' = Toast("success", "PDF report downloaded successfully!")
  /\ UNCHANGED <<accounts, entries, lines, journalLines, jeDate, jeDesc,
                 pdfPreviewData, prevChk, tasks, uidCounter, currentPage>>

(***************************************************************************)
(* SpecPost: postJournalEntry on every draft the journal form can hold.    *)
(* The form is reached by App.navigate('journal') followed by              *)
(* updateJournalLine, addJournalLine and typing in the entry details.      *)
(***************************************************************************)
DraftLineInputs ==
  {[accountId |-> a, debit |-> d, credit |-> c] :
     a \in AccountIdInputs, d \in AmountInputs, c \in {<< >>, <<1>>}}

DraftInputs == UNION {[1..n -> DraftLineInputs] : n \in 2..MaxDraftLines}

InitPost ==
  /\ accounts = SEED_ACCOUNTS
  /\ entries = SEED_ENTRIES
  /\ lines = SEED_LINES
  /\ journalLines \in DraftInputs
  /\ jeDate \in DateInputs
  /\ jeDesc \in DescInputs
  /\ pdfPreviewData = << >>
  /\ prevChk = << >>
  /\ tasks = [t \in Slots |-> NoTask]
  /\ uidCounter = 0
  /\ currentPage = "journal"
  /\ toast = Toast("", "")
  /\ view = NoView

NextPost ==
  \/ \E t \in Slots : postJournalEntry(t)
  \/ \E t \in Slots : postSavedEntry(t)
  \/ \E t \in Slots : postSavedLine(t)
  \/ \E t \in Slots : postFinished(t)
  \/ \E t \in Slots : requestFails(t)

SpecPost == InitPost /\ [][NextPost]_vars

(***************************************************************************)
(* SpecRace: the journal page and the chart of accounts page with their    *)
(* handlers interleaved at their awaits.  It starts on the journal page    *)
(* with a balanced two-line draft typed in.                                *)
(***************************************************************************)
RaceDrafts ==
  { << [accountId |-> "acc_1000", debit |-> <<1>>, credit |-> << >>],
       [accountId |-> "acc_4000", debit |-> << >>, credit |-> <<1>>] >> }

InitRace ==
  /\ accounts = SEED_ACCOUNTS
  /\ entries = SEED_ENTRIES
  /\ lines = SEED_LINES
  /\ journalLines \in RaceDrafts
  /\ jeDate = today
  /\ jeDesc = "memo"
  /\ pdfPreviewData = << >>
  /\ prevChk = << >>
  /\ tasks = [t \in Slots |-> NoTask]
  /\ uidCounter = 0
  /\ currentPage = "journal"
  /\ toast = Toast("", "")
  /\ view = NoView

\* the accounts whose Delete button the model clicks
DeleteInputs == {"acc_1000", "acc_4000"}

NextRace ==
  \/ \E p \in {"coa", "journal"} : Navigate(p)
  \/ \E t \in Slots : postJournalEntry(t)
  \/ \E t \in Slots : postSavedEntry(t)
  \/ \E t \in Slots : postSavedLine(t)
  \/ \E t \in Slots : postFinished(t)
  \/ \E t \in Slots, id \in AccountIds \cap DeleteInputs : deleteAccount(t, id)
  \/ \E t \in Slots, c \in BOOLEAN : deleteAccountChecked(t, c)
  \/ \E t \in Slots : deleteAccountDone(t)

SpecRace == InitRace /\ [][NextRace]_vars

(***************************************************************************)
(* SpecEdit: the user keeps editing the draft while postJournalEntry is    *)
(* awaiting its store requests.                                            *)
(***************************************************************************)
NextEdit ==
  \/ \E idx \in 1..2, v \in AccountIdInputs : updateJournalLine(idx, "accountId", v)
  \/ \E t \in Slots : postJournalEntry(t)
  \/ \E t \in Slots : postSavedEntry(t)
  \/ \E t \in Slots : postSavedLine(t)
  \/ \E t \in Slots : postFinished(t)

SpecEdit == InitRace /\ [][NextEdit]_vars

(***************************************************************************)
(* SpecLedger: the report pages over the ledgers the stores can hold.  The *)
(* chart is two seeded accounts whose type and normal side were edited     *)
(* freely (saveEditAccount); the lines belong to one posted entry and      *)
(* carry the id of an account of the chart or of a deleted account.  The   *)
(* stores do not change while a page renders.                              *)
(***************************************************************************)
\* the options of the account type select
LedgerTypes == {"Asset", "Liability", "Equity", "Revenue", "Expense"}

LedgerCharts ==
  {<< [id |-> "acc_1000", code |-> 1000, type |-> t1, normal |-> n1],
      [id |-> "acc_1700", code |-> 1700, type |-> t2, normal |-> n2] >> :
     t1 \in LedgerTypes, n1 \in NormalInputs, t2 \in LedgerTypes, n2 \in NormalInputs}

LedgerAmounts == {<<1000, 0>>, <<0, 1000>>, <<1000, 1000>>}

LedgerLineInputs ==
  {[accountId |-> a, debit |-> m[1], credit |-> m[2]] :
     a \in {"acc_1000", "acc_1700", "acc_5000"}, m \in LedgerAmounts}

LedgerLines ==
  UNION {{[k \in 1..n |-> [id |-> uid("jl", 1 + k), entryId |-> "je_1",
                           accountId |-> f[k].accountId, debit |-> f[k].debit,
                           credit |-> f[k].credit, seq |-> k]] :
            f \in [1..n -> LedgerLineInputs]} : n \in 0..MaxLedgerLines}

InitLedger ==
  /\ accounts \in LedgerCharts
  /\ lines \in LedgerLines
  /\ entries = IF lines = << >> THEN << >> ELSE <<[id |-> "je_1", date |-> today]>>
  /\ journalLines = << >>
  /\ jeDate = ""
  /\ jeDesc = ""
  /\ pdfPreviewData = << >>
  /\ prevChk = << >>
  /\ tasks = [t \in Slots |-> NoTask]
  /\ uidCounter = IF lines = << >> THEN 0 ELSE 1 + Len(lines)
  /\ currentPage = "dashboard"
  /\ toast = Toast("", "")
  /\ view = NoView

NextLedger ==
  \/ renderCOA
  \/ renderBalanceSheet

SpecLedger == InitLedger /\ [][NextLedger]_vars

(***************************************************************************)
(* SpecOwn: the journal page with postJournalEntry and deleteEntry         *)
(* interleaved at their awaits.  The history that offers the Del buttons   *)
(* is refreshed by navigating to the journal page again.                   *)
(***************************************************************************)
NextOwn ==
  \/ Navigate("journal")
  \/ \E t \in Slots : postJournalEntry(t)
  \/ \E t \in Slots : postSavedEntry(t)
  \/ \E t \in Slots : postSavedLine(t)
  \/ \E t \in Slots : postFinished(t)
  \/ \E t \in Slots, id \in EntryIds, confirm \in BOOLEAN : deleteEntry(t, id, confirm)
  \/ \E t \in Slots : deleteEntryGotLines(t)
  \/ \E t \in Slots : deleteEntryDeletedLine(t)
  \/ \E t \in Slots : deleteEntryDone(t)

SpecOwn == InitRace /\ [][NextOwn]_vars

(***************************************************************************)
(* SpecTrial, SpecGL: the trial balance and the general ledger, on screen  *)
(* and exported, over the ledgers of SpecLedger.                           *)
(***************************************************************************)
NextTrial ==
  \/ renderTrialBalance
  \/ generate("trial")

SpecTrial == InitLedger /\ [][NextTrial]_vars

\* the general ledger does not read the account type: the charts of SpecGL
\* vary the normal side only, and the entry of the lines may be gone
GLCharts ==
  {<< [id |-> "acc_1000", code |-> 1000, type |-> "Asset", normal |-> n1],
      [id |-> "acc_1700", code |-> 1700, type |-> "Asset", normal |-> n2] >> :
     n1 \in NormalInputs, n2 \in NormalInputs}

InitGL ==
  /\ accounts \in GLCharts
  /\ lines \in LedgerLines
  /\ entries \in {<< >>, <<[id |-> "je_1", date |-> today]>>}
  /\ journalLines = << >>
  /\ jeDate = ""
  /\ jeDesc = ""
  /\ pdfPreviewData = << >>
  /\ prevChk = << >>
  /\ tasks = [t \in Slots |-> NoTask]
  /\ uidCounter = 1 + Len(lines)
  /\ currentPage = "dashboard"
  /\ toast = Toast("", "")
  /\ view = NoView

GLFilterInputs == {"", "acc_1000"}

NextGL ==
  \/ \E filterAcct \in GLFilterInputs, fromDate \in GLDateInputs, toDate \in GLDateInputs :
        renderGLData(filterAcct, fromDate, toDate)
  \/ generate("ledger")

SpecGL == InitGL /\ [][NextGL]_vars

(***************************************************************************)
(* SpecIncome: the income statement and the balance sheet, on screen and   *)
(* exported, over charts whose codes, types and normal sides were edited   *)
(* freely: the seeded Sales Revenue and Cost of Goods Sold rows, with the  *)
(* code '5000' on none, one or both of them.                               *)
(***************************************************************************)
IncomeTypes == {"Asset", "Revenue", "Expense"}

IncomeCharts ==
  {<< [id |-> "acc_4000", code |-> c1, type |-> t1, normal |-> n1],
      [id |-> "acc_5000", code |-> c2, type |-> t2, normal |-> n2] >> :
     c1 \in {4000, 5000}, t1 \in IncomeTypes, n1 \in NormalInputs,
     c2 \in {5000, 5100}, t2 \in IncomeTypes, n2 \in NormalInputs}

IncomeLineInputs ==
  {[accountId |-> a, debit |-> m[1], credit |-> m[2]] :
     a \in {"acc_4000", "acc_5000"}, m \in {<<1000, 0>>, <<0, 1000>>}}

IncomeLines ==
  UNION {{[k \in 1..n |-> [id |-> uid("jl", 1 + k), entryId |-> "je_1",
                           accountId |-> f[k].accountId, debit |-> f[k].debit,
                           credit |-> f[k].credit, seq |-> k]] :
            f \in [1..n -> IncomeLineInputs]} : n \in 0..MaxLedgerLines}

InitIncome ==
  /\ accounts \in IncomeCharts
  /\ lines \in IncomeLines
  /\ entries = IF lines = << >> THEN << >> ELSE <<[id |-> "je_1", date |-> today]>>
  /\ journalLines = << >>
  /\ jeDate = ""
  /\ jeDesc = ""
  /\ pdfPreviewData = << >>
  /\ prevChk = << >>
  /\ tasks = [t \in Slots |-> NoTask]
  /\ uidCounter = IF lines = << >> THEN 0 ELSE 1 + Len(lines)
  /\ currentPage = "dashboard"
  /\ toast = Toast("", "")
  /\ view = NoView

NextIncome ==
  \/ renderIncomeStatement
  \/ renderBalanceSheet
  \/ generate("income")
  \/ generate("balance")

SpecIncome == InitIncome /\ [][NextIncome]_vars

(***************************************************************************)
(* SpecScenario: from the seeded chart with no lines, a draft that debits  *)
(* Cash and credits Sales Revenue by the same amount is posted, and the    *)
(* income statement is opened at any time.                                 *)
(***************************************************************************)
ScenarioAmounts == {<<1>>, <<2>>, <<500000>>}

ScenarioDrafts ==
  {<< [accountId |-> "acc_1000", debit |-> x, credit |-> << >>],
      [accountId |-> "acc_4000", debit |-> << >>, credit |-> x] >> : x \in ScenarioAmounts}

InitScenario ==
  /\ accounts = SEED_ACCOUNTS
  /\ entries = SEED_ENTRIES
  /\ lines = SEED_LINES
  /\ journalLines \in ScenarioDrafts
  /\ jeDate = today
  /\ jeDesc = "memo"
  /\ pdfPreviewData = << >>
  /\ prevChk = << >>
  /\ tasks = [t \in Slots |-> NoTask]
  /\ uidCounter = 0
  /\ currentPage = "journal"
  /\ toast = Toast("", "")
  /\ view = JournalHistory(SEED_ENTRIES)

NextScenario ==
  \/ \E t \in Slots : postJournalEntry(t)
  \/ \E t \in Slots : postSavedEntry(t)
  \/ \E t \in Slots : postSavedLine(t)
  \/ \E t \in Slots : postFinished(t)
  \/ renderIncomeStatement

SpecScenario == InitScenario /\ [][NextScenario]_vars

(***************************************************************************)
(* SpecMap: handlePDFUpload over the account lists the store can hold: any *)
(* sub-list of six seeded rows, two of them Revenue accounts.              *)
(***************************************************************************)
MapPool ==
  << [id |-> "acc_1000", code |-> 1000, type |-> "Asset",     normal |-> "Debit"],
     [id |-> "acc_1700", code |-> 1700, type |-> "Asset",     normal |-> "Credit"],
     [id |-> "acc_2000", code |-> 2000, type |-> "Liability", normal |-> "Credit"],
     [id |-> "acc_4000", code |-> 4000, type |-> "Revenue",   normal |-> "Credit"],
     [id |-> "acc_4100", code |-> 4100, type |-> "Revenue",   normal |-> "Credit"],
     [id |-> "acc_5000", code |-> 5000, type |-> "Expense",   normal |-> "Debit"] >>

\* the rows of MapPool at the positions of keep, in the order of the store
SubChart(keep) == SelectSeq(MapPool, LAMBDA a : \E i \in keep : MapPool[i] = a)

MapCharts == {SubChart(keep) : keep \in SUBSET (1..Len(MapPool))}

InitMap ==
  /\ accounts \in MapCharts
  /\ entries = SEED_ENTRIES
  /\ lines = SEED_LINES
  /\ journalLines = << >>
  /\ jeDate = ""
  /\ jeDesc = ""
  /\ pdfPreviewData = << >>
  /\ prevChk = << >>
  /\ tasks = [t \in Slots |-> NoTask]
  /\ uidCounter = 0
  /\ currentPage = "pdf-upload"
  /\ toast = Toast("", "")
  /\ view = NoView

NextMap ==
  \E classified \in PreviewInputs : handlePDFUpload(classified)

SpecMap == InitMap /\ [][NextMap]_vars

(***************************************************************************)
(* SpecImport: the preview of an uploaded document, its checkboxes and     *)
(* importSelectedEntries.                                                  *)
(***************************************************************************)
\* the chart with and without its cash account (code '1000')
ImportCharts == {SubChart(1..Len(MapPool)), SubChart(2..Len(MapPool))}

InitImport ==
  /\ accounts \in ImportCharts
  /\ entries = SEED_ENTRIES
  /\ lines = SEED_LINES
  /\ journalLines = << >>
  /\ jeDate = ""
  /\ jeDesc = ""
  /\ pdfPreviewData = << >>
  /\ prevChk = << >>
  /\ tasks = [t \in Slots |-> NoTask]
  /\ uidCounter = 0
  /\ currentPage = "pdf-upload"
  /\ toast = Toast("", "")
  /\ view = NoView

NextImport ==
  \/ \E classified \in PreviewInputs : handlePDFUpload(classified)
  \/ \E idx \in 1..MaxPreview : togglePreview(idx)
  \/ \E state \in BOOLEAN : selectAllPreviews(state)
  \/ \E t \in Slots : importSelectedEntries(t)
  \/ \E t \in Slots : importSavedEntry(t)
  \/ \E t \in Slots : importSavedDebit(t)
  \/ \E t \in Slots : importSavedCredit(t)

SpecImport == InitImport /\ [][NextImport]_vars

(***************************************************************************)
(* Vocabulary of the properties.                                           *)
(***************************************************************************)
LinesOfEntry(ls, entryId) == SelectSeq(ls, LAMBDA l : l.entryId = entryId)

SumDebit(ls) == SumSeq([k \in 1..Len(ls) |-> ls[k].debit])

SumCredit(ls) == SumSeq([k \in 1..Len(ls) |-> ls[k].credit])

PostErrorMessages ==
  {"Please fill in date and description",
   "Entry not balanced! Debits must equal Credits",
   "Entry has no amounts",
   "At least 2 lines with accounts and amounts required"}

\* the step in which postJournalEntry of task t stores its last line and returns
PostCompletes(t) ==
  /\ tasks[t].op = "postJournalEntry"
  /\ tasks'[t].op = "none"
  /\ lines' # lines

\* the step in which a call of postJournalEntry is rejected with a message
PostRejects ==
  /\ toast' # toast
  /\ toast'.type = "error"
  /\ toast'.msg \in PostErrorMessages

\* the step in which a call of postJournalEntry passes validation in slot t
PostStarts(t) ==
  /\ tasks[t].op = "none"
  /\ tasks'[t].op = "postJournalEntry"

\* the lines of the draft that have an account and a positive amount
QualifyingLines(draft) ==
  {k \in 1..Len(draft) :
     /\ draft[k].accountId # ""
     /\ \/ (draft[k].debit # << >> /\ draft[k].debit[1] > 0)
        \/ (draft[k].credit # << >> /\ draft[k].credit[1] > 0)}

(***************************************************************************)
(* C1.  Posting balance invariant: when postJournalEntry has committed an  *)
(* entry, the lines persisted for that entry have                          *)
(* |sum(debit) - sum(credit)| < 0.001, which is < 1 in thousandths.        *)
(***************************************************************************)
C1_PostingBalance ==
  [][\A t \in Slots :
       PostCompletes(t) =>
         LET ls == LinesOfEntry(lines', tasks[t].entryId)
         IN Abs(SumDebit(ls) - SumCredit(ls)) < 1]_vars

(***************************************************************************)
(* C3.  All-or-nothing posting: no reachable store state holds an entry    *)
(* with only a proper subset of the lines that were to be committed for    *)
(* it.  Every commit writes at least two lines, and a running commit       *)
(* writes one line per element of validLines (two for an imported          *)
(* candidate).                                                             *)
(***************************************************************************)
LinesToCommit(tk) ==
  IF tk.op = "postJournalEntry" THEN Len(tk.validLines) ELSE 2

C3_AllOrNothing ==
  \A i \in 1..Len(entries) :
    LET n == Len(LinesOfEntry(lines, entries[i].id))
    IN /\ n >= 2
       /\ \A t \in Slots :
            (tasks[t].op \in {"postJournalEntry", "importSelectedEntries"}
               /\ tasks[t].entryId = entries[i].id)
            => n = LinesToCommit(tasks[t])

(***************************************************************************)
(* C4.  deleteAccount(id): when a stored line references the account the   *)
(* call ends with the error toast and leaves accounts, entries and lines   *)
(* as they are; the delete request is issued only when no stored line      *)
(* references the account; and the request, once issued, removes exactly   *)
(* that account.                                                           *)
(***************************************************************************)
Referenced(id) == \E i \in 1..Len(lines) : lines[i].accountId = id

C4_DeleteAccount ==
  [][\A t \in Slots :
       (tasks[t].op = "deleteAccount" /\ tasks'[t] # tasks[t]) =>
         /\ (tasks[t].pc = "getLines" /\ Referenced(tasks[t].id)) =>
              /\ UNCHANGED <<accounts, entries, lines>>
              /\ tasks'[t].op = "none"
              /\ toast' = Toast("error", "Cannot delete: account has journal entries")
         /\ (tasks[t].pc = "getLines" /\ ~Referenced(tasks[t].id)) =>
              /\ UNCHANGED <<accounts, entries, lines, toast>>
              /\ tasks'[t].op = "none" \/ tasks'[t].pc = "deleteAccount"
         /\ tasks[t].pc = "deleteAccount" =>
              /\ tasks[t].id \notin {accounts'[i].id : i \in 1..Len(accounts')}
              /\ \A i \in 1..Len(accounts) :
                   accounts[i].id # tasks[t].id => accounts[i] \in Range(accounts')
              /\ UNCHANGED <<entries, lines>>
              /\ toast' = Toast("success", "Account deleted")]_vars

\* one account was deleted while unreferenced, and the deletion of another,
\* referenced by a stored line, was then refused and left it in place
C4_Witness ==
  /\ toast = Toast("error", "Cannot delete: account has journal entries")
  /\ Len(accounts) < Len(SEED_ACCOUNTS)
  /\ \E i \in 1..Len(lines) : lines[i].accountId \in AccountIds

(***************************************************************************)
(* C5.  Referential integrity: every stored journal line's accountId is    *)
(* the id of an account in the accounts store.                             *)
(***************************************************************************)
C5_ReferentialIntegrity ==
  \A i \in 1..Len(lines) : lines[i].accountId \in AccountIds

(***************************************************************************)
(* C6.  Validation failure leaves state unchanged: a call of               *)
(* postJournalEntry that is rejected writes no account, entry or line and  *)
(* starts no store request; and a draft with a missing date or             *)
(* description, a debit/credit difference above the tolerance, a zero      *)
(* total or fewer than two valid lines never passes validation.            *)
(***************************************************************************)
InvalidDraft ==
  \/ jeDate = ""
  \/ jeDesc = ""
  \/ Abs(DraftTotalDr(journalLines) - DraftTotalCr(journalLines)) > 1
  \/ DraftTotalDr(journalLines) = 0
  \/ Cardinality(QualifyingLines(journalLines)) < 2

C6_RejectionWritesNothing ==
  [][/\ PostRejects => UNCHANGED <<accounts, entries, lines, tasks, uidCounter>>
     /\ \A t \in Slots : PostStarts(t) => ~InvalidDraft]_vars

\* a rejected unbalanced draft with the stores still as seeded
C6_Witness ==
  /\ toast = Toast("error", "Entry not balanced! Debits must equal Credits")
  /\ entries = << >>
  /\ lines = << >>
  /\ accounts = SEED_ACCOUNTS

(***************************************************************************)
(* C7.  Every entry committed by postJournalEntry has at least two         *)
(* persisted lines, each with an account set and a positive amount, and a  *)
(* draft with fewer than two qualifying lines never passes validation.     *)
(***************************************************************************)
C7_CommittedLinesQualify ==
  [][\A t \in Slots :
       /\ PostCompletes(t) =>
            LET ls == LinesOfEntry(lines', tasks[t].entryId)
            IN /\ Len(ls) >= 2
               /\ \A k \in 1..Len(ls) :
                    ls[k].accountId # "" /\ (ls[k].debit > 0 \/ ls[k].credit > 0)
       /\ PostStarts(t) => Cardinality(QualifyingLines(journalLines)) >= 2]_vars

(***************************************************************************)
(* Vocabulary of the ledger properties.                                    *)
(***************************************************************************)
LinesOfAccount(ls, id) == SelectSeq(ls, LAMBDA l : l.accountId = id)

\* sum(debit) - sum(credit) over the lines referencing the account
RawBalance(ls, id) == SumDebit(LinesOfAccount(ls, id)) - SumCredit(LinesOfAccount(ls, id))

EveryEntryBalanced(ls) ==
  \A k \in 1..Len(ls) :
    SumDebit(LinesOfEntry(ls, ls[k].entryId)) = SumCredit(LinesOfEntry(ls, ls[k].entryId))

NoOrphanLine(accs, ls) ==
  \A k \in 1..Len(ls) : \E i \in 1..Len(accs) : accs[i].id = ls[k].accountId

FlipAccounts(accs) ==
  [i \in 1..Len(accs) |->
     [accs[i] EXCEPT !.normal = IF @ = "Debit" THEN "Credit" ELSE "Debit"]]

FlipLines(ls) ==
  [k \in 1..Len(ls) |-> [ls[k] EXCEPT !.debit = ls[k].credit, !.credit = ls[k].debit]]

(***************************************************************************)
(* C2.  Accounting equation: whenever every posted entry is individually   *)
(* balanced (and, here, every line references an account of the chart),    *)
(* the balance sheet page has TotalAssets within 0.01 of TotalLiabilities  *)
(* + TotalEquity including net income, and reports 'balanced'.             *)
(***************************************************************************)
C2_AccountingEquation ==
  (view.page = "balance-sheet" /\ EveryEntryBalanced(lines) /\ NoOrphanLine(accounts, lines))
    => /\ view.balanced
       /\ Abs(view.totalAssets - view.totalLiabEquity) < 10

(***************************************************************************)
(* C8.  Balance sign rule: for every account, getAccountBalances (shown on *)
(* the chart page) and _getBalance (shown on the balance sheet) both give  *)
(* sum(debit) - sum(credit) of the lines referencing the account when its  *)
(* normal side is Debit and the negation when it is Credit, so the two     *)
(* agree.                                                                  *)
(***************************************************************************)
SignRule(a, ls) ==
  IF a.normal = "Debit" THEN RawBalance(ls, a.id) ELSE -RawBalance(ls, a.id)

SheetRows == view.assetRows \o view.liabRows \o view.eqRows

C8_BalanceSignRule ==
  /\ view.page = "coa" =>
       \A i \in 1..Len(accounts) :
         /\ view.balances[i].id = accounts[i].id
         /\ view.balances[i].balance = SignRule(accounts[i], lines)
         /\ view.balances[i].balance = _getBalance(accounts[i], lines)
  /\ view.page = "balance-sheet" =>
       \A r \in 1..Len(SheetRows) : \A i \in 1..Len(accounts) :
         accounts[i].id = SheetRows[r].id =>
           /\ SheetRows[r].bal = SignRule(accounts[i], lines)
           /\ SheetRows[r].bal = getAccountBalances(accounts, lines)[i].balance

\* the chart page shows a positive balance of a credit-normal account and of
\* a debit-normal account
C8_Witness ==
  /\ view.page = "coa"
  /\ \E i \in 1..Len(accounts) :
       accounts[i].normal = "Credit" /\ view.balances[i].balance > 0
  /\ \E i \in 1..Len(accounts) :
       accounts[i].normal = "Debit" /\ view.balances[i].balance > 0

(***************************************************************************)
(* C9.  Flip symmetry: swapping debit and credit on every line and         *)
(* flipping the normal side of every account leaves every balance that     *)
(* getAccountBalances returns unchanged.                                   *)
(***************************************************************************)
C9_FlipSymmetry ==
  view.page = "coa" =>
    LET flipped == getAccountBalances(FlipAccounts(accounts), FlipLines(lines))
    IN /\ Len(flipped) = Len(view.balances)
       /\ \A i \in 1..Len(flipped) :
            /\ flipped[i].id = view.balances[i].id
            /\ flipped[i].balance = view.balances[i].balance

\* the chart page shows a non-zero balance and the lines are not symmetric
C9_Witness ==
  /\ view.page = "coa"
  /\ \E i \in 1..Len(view.balances) : view.balances[i].balance # 0
  /\ FlipLines(lines) # lines

(***************************************************************************)
(* C10.  Orphan lines are ignored: getAccountBalances returns exactly one  *)
(* result per account, in the order of the accounts, and the balances are  *)
(* those computed without the lines whose accountId matches no account.    *)
(***************************************************************************)
WithoutOrphans(accs, ls) ==
  SelectSeq(ls, LAMBDA l : \E i \in 1..Len(accs) : accs[i].id = l.accountId)

C10_OrphansIgnored ==
  view.page = "coa" =>
    /\ Len(view.balances) = Len(accounts)
    /\ \A i \in 1..Len(accounts) : view.balances[i].id = accounts[i].id
    /\ view.balances = getAccountBalances(accounts, WithoutOrphans(accounts, lines))

\* the chart page was rendered over a ledger holding an orphan line next to
\* a line of an existing account
C10_Witness ==
  /\ view.page = "coa"
  /\ ~NoOrphanLine(accounts, lines)
  /\ WithoutOrphans(accounts, lines) # << >>

(***************************************************************************)
(* C11.  Trial balance totals: on the trial balance page and in its PDF    *)
(* export, totalDebit is the sum of the debit fields of all stored lines   *)
(* and totalCredit the sum of their credit fields.                         *)
(***************************************************************************)
C11_TrialTotals ==
  view.page \in {"trial-balance", "pdf-trial"} =>
    /\ view.totalDr = SumDebit(lines)
    /\ view.totalCr = SumCredit(lines)

(***************************************************************************)
(* C12.  Trial balance equality: when the lines of every entry balance,    *)
(* the trial balance page has totalDebit = totalCredit and shows the       *)
(* 'balanced' flag.                                                        *)
(***************************************************************************)
C12_TrialBalanced ==
  (view.page = "trial-balance" /\ EveryEntryBalanced(lines)) =>
    /\ view.totalDr = view.totalCr
    /\ view.balanced

(***************************************************************************)
(* C13.  Lines never outlive their entry: once every started operation     *)
(* has completed, every stored line's entryId is the id of a stored entry. *)
(***************************************************************************)
C13_LinesOwned ==
  (\A t \in Slots : tasks[t].op = "none") =>
    \A i \in 1..Len(lines) : lines[i].entryId \in EntryIds

(***************************************************************************)
(* C14.  Line invariant: every stored journal line has debit >= 0 and      *)
(* credit >= 0 and never both debit > 0 and credit > 0.  The lines store   *)
(* starts empty and is written only by postJournalEntry and                *)
(* importSelectedEntries.                                                  *)
(***************************************************************************)
C14_LineInvariant ==
  \A i \in 1..Len(lines) :
    /\ lines[i].debit >= 0
    /\ lines[i].credit >= 0
    /\ ~(lines[i].debit > 0 /\ lines[i].credit > 0)

(***************************************************************************)
(* C15.  Net income is computed identically everywhere: the net income of  *)
(* the income statement (screen or PDF) equals the net income line of the  *)
(* balance sheet (screen or PDF) rendered next over the same stores.       *)
(***************************************************************************)
C15_NetIncomeAgrees ==
  [][(/\ view.page \in {"income-statement", "pdf-income"}
      /\ view'.page \in {"balance-sheet", "pdf-balance"}
      /\ UNCHANGED <<accounts, lines>>)
       => view'.netInc = view.netIncome]_vars

(***************************************************************************)
(* C16.  Scenario A generalised: when the stores hold the seeded chart and *)
(* exactly one committed entry, debiting acc_1000 by X > 0 and crediting   *)
(* acc_4000 by X, the income statement rendered then reports Total Revenue *)
(* = X and Net Income = X.                                                 *)
(***************************************************************************)
ScenarioCommitted ==
  /\ accounts = SEED_ACCOUNTS
  /\ Len(entries) = 1
  /\ Len(lines) = 2
  /\ \A t \in Slots : tasks[t].op = "none"
  /\ lines[1].accountId = "acc_1000" /\ lines[1].debit > 0 /\ lines[1].credit = 0
  /\ lines[2].accountId = "acc_4000" /\ lines[2].credit = lines[1].debit /\ lines[2].debit = 0
  /\ \A k \in 1..2 : lines[k].entryId = entries[1].id

C16_ScenarioA ==
  [][(/\ ScenarioCommitted
      /\ view' # view
      /\ view'.page = "income-statement")
       => /\ view'.totalRev = lines[1].debit
          /\ view'.netIncome = lines[1].debit]_vars

\* the income statement shows the 500.00 of Scenario A
C16_Witness ==
  /\ ScenarioCommitted
  /\ view.page = "income-statement"
  /\ lines[1].debit = 500000
  /\ view.totalRev = 500000

(***************************************************************************)
(* C17.  General ledger running balance: on the general ledger page and in *)
(* its PDF export, the balance on each line of an account is the sum of    *)
(* debit - credit over the account's listed lines up to that line,         *)
(* re-signed by the account's normal side; with no filter the balance on   *)
(* the account's last line is its balance from getAccountBalances.         *)
(***************************************************************************)
AccountOf(id) == accounts[FindIndex(accounts, id, 1)]

Resigned(normal, n) == IF normal = "Credit" THEN -n ELSE n

PrefixRaw(rows, j) == SumSeq([k \in 1..j |-> rows[k].debit - rows[k].credit])

DisplayBalanceOf(id) ==
  getAccountBalances(accounts, lines)[FindIndex(accounts, id, 1)].balance

GLUnfiltered ==
  \/ view.page = "pdf-ledger"
  \/ view.page = "general-ledger" /\ view.filterAcct = "" /\ view.fromDate = "" /\ view.toDate = ""

RunningBalanceOK(section) ==
  /\ \A j \in 1..Len(section.rows) :
       section.rows[j].balance
         = Resigned(AccountOf(section.id).normal, PrefixRaw(section.rows, j))
  /\ GLUnfiltered =>
       section.rows[Len(section.rows)].balance = DisplayBalanceOf(section.id)

CashIdx == {i \in 1..Len(accounts) : accounts[i].code = 1000}

OtherAssetIdx == {i \in 1..Len(accounts) : accounts[i].type = "Asset" /\ accounts[i].code # 1000}

TypeIdx(type) == {i \in 1..Len(accounts) : accounts[i].type = type}

\* the candidate's account is the first account of the list at a position of S
IsFirstOf(acct, S) ==
  S # {} => acct = accounts[CHOOSE i \in S : \A j \in S : i <= j]

C18_DefaultAccounts ==
  \A k \in 1..Len(pdfPreviewData) :
    LET c == pdfPreviewData[k]
    IN /\ c.category = "Asset" =>
            IsFirstOf(c.debitAccount, OtherAssetIdx) /\ IsFirstOf(c.creditAccount, CashIdx)
       /\ c.category = "Liability" =>
            IsFirstOf(c.debitAccount, CashIdx) /\ IsFirstOf(c.creditAccount, TypeIdx("Liability"))
       /\ c.category = "Revenue" =>
            IsFirstOf(c.debitAccount, CashIdx) /\ IsFirstOf(c.creditAccount, TypeIdx("Revenue"))
       /\ c.category = "Expense" =>
            IsFirstOf(c.debitAccount, TypeIdx("Expense")) /\ IsFirstOf(c.creditAccount, CashIdx)

\* an Expense item was mapped over a list holding cash, an expense account
\* and two revenue accounts
C18_Witness ==
  /\ \E k \in 1..Len(pdfPreviewData) :
       /\ pdfPreviewData[k].category = "Expense"
       /\ pdfPreviewData[k].debitAccount # << >>
       /\ pdfPreviewData[k].debitAccount.id = "acc_5000"
       /\ pdfPreviewData[k].creditAccount # << >>
       /\ pdfPreviewData[k].creditAccount.id = "acc_1000"
  /\ Cardinality(TypeIdx("Revenue")) = 2

(***************************************************************************)
(* C19.  Fallback is total: for a non-empty account list every candidate   *)
(* handlePDFUpload shows has a debit account and a credit account defined, *)
(* the first account of the list standing in for a missing one.            *)
(***************************************************************************)
C19_FallbackTotal ==
  accounts # << >> =>
    \A k \in 1..Len(pdfPreviewData) :
      /\ pdfPreviewData[k].debitAccount # << >>
      /\ pdfPreviewData[k].creditAccount # << >>

(***************************************************************************)
(* C20.  Committing candidates: a run of importSelectedEntries works on    *)
(* exactly the candidates whose checkbox is ticked and skips none of them; *)
(* for each it leaves one entry with exactly two lines, the debit line     *)
(* (debit = amount, credit = 0) on the candidate's debit account and the   *)
(* credit line (debit = 0, credit = amount) on its credit account; and the *)
(* number it reports is the number of entries it created.                  *)
(***************************************************************************)
ImportStarts(t) == tasks[t].op = "none" /\ tasks'[t].op = "importSelectedEntries"

ImportCommits(t) ==
  /\ tasks[t].op = "importSelectedEntries"
  /\ tasks[t].pc = "saveLine2"
  /\ tasks'[t] # tasks[t]

\* the run ends in the call that started it: no candidate was committed
ImportEndsAtOnce == pdfPreviewData # << >> /\ pdfPreviewData' = << >> /\ UNCHANGED tasks

CommittedPair(t) ==
  LET e == tasks[t].selected[tasks[t].k]
      ls == LinesOfEntry(lines', tasks[t].entryId)
  IN /\ tasks[t].entryId \in {entries'[i].id : i \in 1..Len(entries')}
     /\ Len(ls) = 2
     /\ ls[1].accountId = e.debitAccount.id /\ ls[1].debit = e.amount /\ ls[1].credit = 0
     /\ ls[2].accountId = e.creditAccount.id /\ ls[2].debit = 0 /\ ls[2].credit = e.amount

C20_ImportCommits ==
  [][/\ \A t \in Slots :
          /\ ImportStarts(t) => tasks'[t].selected = SelectedPreviews /\ tasks'[t].k = 1
          /\ ImportCommits(t) =>
               /\ CommittedPair(t)
               /\ IF tasks'[t].op = "none"
                  THEN /\ tasks[t].k = Len(tasks[t].selected)
                       /\ toast'.count = Len(tasks[t].selected)
                  ELSE tasks'[t].k = tasks[t].k + 1
     /\ ImportEndsAtOnce => toast'.count = 0]_vars

(***************************************************************************)
(* PDFParser.classify.  The extracted text is a sequence of lines and a    *)
(* line is a sequence of tokens: words, and the strings the amount         *)
(* pattern matches.  A blank line is the empty sequence.                   *)
(***************************************************************************)
MaxWords == 2
MaxNums == 2
MaxTextLines == 2

Words == {"Cash", "Loan", "Sales", "Rent", "Office", "Fee"}

Numbers == {"0.00", "0.50", "500.00", "$1,250.00"}

\* parseFloat(m[1].replace(/,/g, '')) of a matched token, in thousandths
parseFloat(tok) ==
  CASE tok = "0.00" -> 0
    [] tok = "0.50" -> 500
    [] tok = "500.00" -> 500000
    [] tok = "$1,250.00" -> 1250000

\* number of characters of a word
WordLength(tok) ==
  CASE tok = "Cash" -> 4
    [] tok = "Loan" -> 4
    [] tok = "Sales" -> 5
    [] tok = "Rent" -> 4
    [] tok = "Office" -> 6
    [] tok = "Fee" -> 3

\* the case-insensitive keyword patterns, over the words of the model
assetKw(tok) == tok = "Cash"

liabKw(tok) == tok = "Loan"

revKw(tok) == tok = "Sales"

expKw(tok) == tok \in {"Rent", "Fee"}

\* assetKw.test(line) and the like
TestAsset(line) == \E i \in 1..Len(line) : assetKw(line[i])

TestLiab(line) == \E i \in 1..Len(line) : liabKw(line[i])

TestRev(line) == \E i \in 1..Len(line) : revKw(line[i])

TestExp(line) == \E i \in 1..Len(line) : expKw(line[i])

IsNumber(tok) == tok \in Numbers

IsPositiveNumber(tok) == IsNumber(tok) /\ parseFloat(tok) > 0

IsWord(tok) == ~IsNumber(tok)

\* the values pushed by the while loop: the matches whose value is > 0
LineAmounts(line) ==
  LET hits == SelectSeq(line, IsPositiveNumber)
  IN [i \in 1..Len(hits) |-> parseFloat(hits[i])]

\* Category with the Expense test made first
Category_ExpenseFirst(line) ==
  IF TestExp(line) THEN "Expense"
  ELSE IF TestAsset(line) THEN "Asset"
  ELSE IF TestLiab(line) THEN "Liability"
  ELSE IF TestRev(line) THEN "Revenue"
  ELSE "null"

Category(line) ==
  IF TestAsset(line) THEN "Asset"
  ELSE IF TestLiab(line) THEN "Liability"
  ELSE IF TestRev(line) THEN "Revenue"
  ELSE IF TestExp(line) THEN "Expense"
  ELSE "null"

\* line.replace(amounts, '').trim().replace(/\s+/g, ' '): the words left
CleanDescription(line) == SelectSeq(line, IsWord)

\* length of the description after slice(0, 60)
RECURSIVE DescLength(_)
DescLength(desc) ==
  IF desc = << >> THEN 0
  ELSE IF Len(desc) = 1 THEN WordLength(desc[1])
  ELSE WordLength(Head(desc)) + 1 + DescLength(Tail(desc))

SliceLength(desc) == IF DescLength(desc) > 60 THEN 60 ELSE DescLength(desc)

\* the body of lines.forEach: the entries one line pushes
classifyLine(line) ==
  IF LineAmounts(line) = << >> THEN << >>
  ELSE IF Category(line) # "null"
          /\ LineAmounts(line)[Len(LineAmounts(line))] >= 1000
          /\ SliceLength(CleanDescription(line)) > 3
  THEN << [description |-> CleanDescription(line),
           amount |-> LineAmounts(line)[Len(LineAmounts(line))],
           category |-> Category(line),
           originalLine |-> line] >>
  ELSE << >>

NonBlank(line) == line # << >>

RECURSIVE classifyFrom(_, _)
classifyFrom(ls, k) ==
  IF k > Len(ls) THEN << >> ELSE classifyLine(ls[k]) \o classifyFrom(ls, k + 1)

\* text.split(/\n/).map(l => l.trim()).filter(Boolean), then the forEach
classify(text) == classifyFrom(SelectSeq(text, NonBlank), 1)

\* what mapToJournalEntries reads of a classified entry
ItemOf(e) == [category |-> e.category, amount |-> e.amount]

\* handlePDFUpload(file) up to await PDFParser.extract(file)
handlePDFUploadFile(t, text) ==
  /\ currentPage = "pdf-upload"
  /\ StartSlot(t)
  /\ tasks' = [tasks EXCEPT ![t] = [op |-> "handlePDFUpload", pc |-> "extract", text |-> text]]
  /\ UNCHANGED <<accounts, entries, lines, journalLines, jeDate, jeDesc,
                 pdfPreviewData, prevChk, uidCounter, currentPage, toast, view>>

\* the text is extracted: classify, then await DB.getAccounts()
handlePDFUploadClassify(t) ==
  /\ tasks[t].op = "handlePDFUpload"
  /\ tasks[t].pc = "extract"
  /\ IF Len(classify(tasks[t].text)) = 0
     THEN /\ toast' = Toast("warning", "No recognizable transactions found in PDF.")
          /\ tasks' = [tasks EXCEPT ![t] = NoTask]
     ELSE /\ tasks' = [tasks EXCEPT ![t] =
                         [op |-> "handlePDFUpload", pc |-> "getAccounts",
                          text |-> tasks[t].text,
                          classified |-> classify(tasks[t].text)]]
          /\ UNCHANGED toast
  /\ UNCHANGED <<accounts, entries, lines, journalLines, jeDate, jeDesc,
                 pdfPreviewData, prevChk, uidCounter, currentPage, view>>

\* the accounts are read: map, renderPDFPreview and the success toast
handlePDFUploadMapped(t) ==
  /\ tasks[t].op = "handlePDFUpload"
  /\ tasks[t].pc = "getAccounts"
  /\ pdfPreviewData' = mapToJournalEntries(
                         [k \in 1..Len(tasks[t].classified) |-> ItemOf(tasks[t].classified[k])],
                         accounts)
  /\ prevChk' = [k \in 1..Len(tasks[t].classified) |-> TRUE]
  /\ toast' = Toast("success", "Found potential transaction(s)")
  /\ tasks' = [tasks EXCEPT ![t] = NoTask]
  /\ UNCHANGED <<accounts, entries, lines, journalLines, jeDate, jeDesc,
                 uidCounter, currentPage, view>>

\* the words and the amount tokens of one line of a statement
RECURSIVE SeqsUpTo(_, _)
SeqsUpTo(S, n) ==
  IF n = 0 THEN {<< >>}
  ELSE SeqsUpTo(S, n - 1) \cup {Append(s, x) : s \in SeqsUpTo(S, n - 1), x \in S}

ClassifyLines == {w \o n : w \in SeqsUpTo(Words, MaxWords), n \in SeqsUpTo(Numbers, MaxNums)}

\* lines of a statement of several lines, one of them blank
StatementLines ==
  { <<"Cash", "500.00">>, <<"Rent", "$1,250.00">>, <<"Office", "500.00">>,
    << >>, <<"Loan", "Sales", "500.00">>, <<"Sales", "0.50">> }

ClassifyTexts ==
  {<<l>> : l \in ClassifyLines} \cup SeqsUpTo(StatementLines, MaxTextLines)

\* one document is uploaded to a fresh upload page
FirstUpload ==
  /\ pdfPreviewData = << >>
  /\ toast = Toast("", "")
  /\ \A u \in Slots : tasks[u] = NoTask

NextClassify ==
  \/ FirstUpload /\ \E t \in Slots, text \in ClassifyTexts : handlePDFUploadFile(t, text)
  \/ \E t \in Slots : handlePDFUploadClassify(t)
  \/ \E t \in Slots : handlePDFUploadMapped(t)

InitClassify ==
  /\ accounts = SEED_ACCOUNTS
  /\ entries = SEED_ENTRIES
  /\ lines = SEED_LINES
  /\ journalLines = << >>
  /\ jeDate = ""
  /\ jeDesc = ""
  /\ pdfPreviewData = << >>
  /\ prevChk = << >>
  /\ tasks = [t \in Slots |-> NoTask]
  /\ uidCounter = 0
  /\ currentPage = "pdf-upload"
  /\ toast = Toast("", "")
  /\ view = NoView

SpecClassify == InitClassify /\ [][NextClassify]_vars

(***************************************************************************)
(* Claims about PDFParser.classify.                                        *)
(***************************************************************************)
\* the step of handlePDFUpload that classifies the extracted text
ClassifyStep(t) ==
  /\ tasks[t].op = "handlePDFUpload"
  /\ tasks[t].pc = "extract"
  /\ tasks'[t] # tasks[t]

\* the candidates that step produced
ClassifiedBy(t) ==
  IF tasks'[t].op = "handlePDFUpload" THEN tasks'[t].classified ELSE << >>

HasNumber(line) == \E i \in 1..Len(line) : IsNumber(line[i])

\* the value of the last amount token of a line that has one
ChosenAmount(line) ==
  parseFloat(line[CHOOSE i \in 1..Len(line) :
                    IsNumber(line[i]) /\ \A j \in (i + 1)..Len(line) : ~IsNumber(line[j])])

CandidatesOf(cl, line) == {k \in 1..Len(cl) : cl[k].originalLine = line}

\* C21: last-number-wins.  The amount of every candidate is the value of
\* the last amount token of its line, whatever the other tokens are, and a
\* line whose last amount token is not strictly positive, or is below 1,
\* gives no candidate.
C21_LastNumberWins ==
  [][\A t \in Slots :
       ClassifyStep(t) =>
         /\ \A k \in 1..Len(ClassifiedBy(t)) :
              ClassifiedBy(t)[k].amount = ChosenAmount(ClassifiedBy(t)[k].originalLine)
         /\ \A j \in 1..Len(tasks[t].text) :
              (HasNumber(tasks[t].text[j]) /\ ChosenAmount(tasks[t].text[j]) < 1000)
                => CandidatesOf(ClassifiedBy(t), tasks[t].text[j]) = {}]_vars

CategoryOrder == <<"Asset", "Liability", "Revenue", "Expense">>

KeywordSetMatches(c, line) ==
  CASE c = "Asset" -> TestAsset(line)
    [] c = "Liability" -> TestLiab(line)
    [] c = "Revenue" -> TestRev(line)
    [] c = "Expense" -> TestExp(line)

MatchingPositions(line) == {i \in 1..Len(CategoryOrder) : KeywordSetMatches(CategoryOrder[i], line)}

FirstMatch(line) ==
  CategoryOrder[CHOOSE i \in MatchingPositions(line) : \A j \in MatchingPositions(line) : i <= j]

\* the candidates are a subsequence of the lines, in the order of the lines
InSourceOrder(cl, text) ==
  \E f \in [1..Len(cl) -> 1..Len(text)] :
    /\ \A k \in 1..Len(cl) : text[f[k]] = cl[k].originalLine
    /\ \A k \in 1..Len(cl), m \in 1..Len(cl) : k < m => f[k] < f[m]

\* C22: classification priority.  Every candidate has the first category
\* of the order Asset, Liability, Revenue, Expense whose keyword set
\* matches its line, also when later sets match; a line that matches no
\* keyword set gives no candidate; the candidates come in the order of
\* their lines.
C22_ClassificationPriority ==
  [][\A t \in Slots :
       ClassifyStep(t) =>
         /\ \A k \in 1..Len(ClassifiedBy(t)) :
              /\ MatchingPositions(ClassifiedBy(t)[k].originalLine) # {}
              /\ ClassifiedBy(t)[k].category = FirstMatch(ClassifiedBy(t)[k].originalLine)
         /\ \A j \in 1..Len(tasks[t].text) :
              MatchingPositions(tasks[t].text[j]) = {}
                => CandidatesOf(ClassifiedBy(t), tasks[t].text[j]) = {}
         /\ InSourceOrder(ClassifiedBy(t), tasks[t].text)]_vars

\* two candidates of one text were classified, one of them from a line
\* that matches more than one keyword set
C22_Witness ==
  \E t \in Slots :
    /\ tasks[t].op = "handlePDFUpload"
    /\ tasks[t].pc = "getAccounts"
    /\ Len(tasks[t].classified) >= 2
    /\ \E k \in 1..Len(tasks[t].classified) :
         Cardinality(MatchingPositions(tasks[t].classified[k].originalLine)) >= 2

(***************************************************************************)
(* The chart of accounts under saveNewAccount and saveEditAccount.  The    *)
(* user of this specification runs one operation at a time and, in the     *)
(* edit form, changes the code only.                                       *)
(***************************************************************************)
MaxNewAccounts == 2

EditCodeInputs == {1000, 5000}

NoTaskRunning == \A u \in Slots : tasks[u] = NoTask

InitChart ==
  /\ accounts = SEED_ACCOUNTS
  /\ entries = SEED_ENTRIES
  /\ lines = SEED_LINES
  /\ journalLines = << >>
  /\ jeDate = ""
  /\ jeDesc = ""
  /\ pdfPreviewData = << >>
  /\ prevChk = << >>
  /\ tasks = [t \in Slots |-> NoTask]
  /\ uidCounter = 0
  /\ currentPage = "coa"
  /\ toast = Toast("", "")
  /\ view = NoView

NextChart ==
  \/ \E t \in Slots, code \in CodeInputs, name \in NameInputs :
       /\ NoTaskRunning
       /\ uidCounter < MaxNewAccounts
       /\ saveNewAccount(t, code, name, "Asset", "Debit")
  \/ \E t \in Slots : saveAccountDone(t)
  \/ \E t \in Slots, id \in AccountIds : NoTaskRunning /\ saveEditAccount(t, id)
  \/ \E t \in Slots, code \in EditCodeInputs, type \in LedgerTypes, normal \in NormalInputs :
       /\ tasks[t].op = "saveEditAccount"
       /\ tasks[t].pc = "getAccount"
       /\ Get(accounts, tasks[t].id) # << >>
       /\ type = Get(accounts, tasks[t].id).type
       /\ normal = Get(accounts, tasks[t].id).normal
       /\ saveEditAccountGot(t, code, type, normal)

SpecChart == InitChart /\ [][NextChart]_vars

\* C23: account codes are unique.  After any sequence of saveNewAccount
\* and saveEditAccount from the seeded chart, no two accounts of the store
\* have the same code.
C23_CodesUnique ==
  \A i \in 1..Len(accounts), j \in 1..Len(accounts) :
    i # j => accounts[i].code # accounts[j].code

(***************************************************************************)
(* Posting from the journal form and from the import preview, side by      *)
(* side: the journal page shows a balanced draft, the user may post it,    *)
(* go to the upload page, upload a document and import its candidates.     *)
(***************************************************************************)
NextAppend ==
  \/ \E t \in Slots : postJournalEntry(t)
  \/ \E t \in Slots : postSavedEntry(t)
  \/ \E t \in Slots : postSavedLine(t)
  \/ \E t \in Slots : postFinished(t)
  \/ Navigate("pdf-upload")
  \/ \E classified \in PreviewInputs : handlePDFUpload(classified)
  \/ \E t \in Slots : importSelectedEntries(t)
  \/ \E t \in Slots : importSavedEntry(t)
  \/ \E t \in Slots : importSavedDebit(t)
  \/ \E t \in Slots : importSavedCredit(t)

SpecAppend == InitRace /\ [][NextAppend]_vars

PostingOps == {"postJournalEntry", "importSelectedEntries"}

\* a step taken by a running postJournalEntry or importSelectedEntries
PostingStep(t) == tasks[t].op \in PostingOps /\ tasks'[t] # tasks[t]

IsPrefix(s, s2) == Len(s) <= Len(s2) /\ \A i \in 1..Len(s) : s2[i] = s[i]

\* the records s2 has beyond s carry identifiers no earlier record carries
BrandNew(s, s2) ==
  \A i \in (Len(s) + 1)..Len(s2) : \A j \in 1..(i - 1) : s2[j].id # s2[i].id

LedgerDrafts ==
  { << [accountId |-> "acc_1000", debit |-> <<1>>, credit |-> << >>],
       [accountId |-> a, debit |-> << >>, credit |-> <<1>>] >> : a \in {"acc_1000", "acc_4000"} }

InitGLOrder ==
  /\ accounts = SEED_ACCOUNTS
  /\ entries = SEED_ENTRIES
  /\ lines = SEED_LINES
  /\ journalLines \in LedgerDrafts
  /\ jeDate = today
  /\ jeDesc = "memo"
  /\ pdfPreviewData = << >>
  /\ prevChk = << >>
  /\ tasks = [t \in Slots |-> NoTask]
  /\ uidCounter = 0
  /\ currentPage = "journal"
  /\ toast = Toast("", "")
  /\ view = NoView

NextGLOrder ==
  \/ \E t \in Slots : postJournalEntry(t)
  \/ \E t \in Slots : postSavedEntry(t)
  \/ \E t \in Slots : postSavedLine(t)
  \/ \E t \in Slots : postFinished(t)
  \/ \E filterAcct \in GLFilterInputs : renderGLData(filterAcct, "", "")

SpecGLOrder == InitGLOrder /\ [][NextGLOrder]_vars

\* a step in which renderGLData draws the page
GLRenders ==
  /\ view'.page = "general-ledger"
  /\ currentPage' = "general-ledger"
  /\ UNCHANGED <<accounts, entries, lines, tasks>>

LineOf(id) == lines[FindIndex(lines, id, 1)]

\* the parent of l1 was posted before the parent of l2, or they are lines
\* of one entry and l1 has the smaller seq
ListedBefore(l1, l2) ==
  \/ FindIndex(entries, l1.entryId, 1) < FindIndex(entries, l2.entryId, 1)
  \/ l1.entryId = l2.entryId /\ l1.seq < l2.seq

\* C25: General Ledger ordering.  The page lists the accounts by ascending
\* code and, within each account, the lines in the posting order of their
\* parent entries and by ascending seq within one entry.
C25_LedgerOrdering ==
  [][GLRenders =>
       /\ \A s \in 1..(Len(view'.sections) - 1) :
            AccountOf(view'.sections[s].id).code <= AccountOf(view'.sections[s + 1].id).code
       /\ \A s \in 1..Len(view'.sections) :
            \A j \in 1..(Len(view'.sections[s].rows) - 1) :
              ListedBefore(LineOf(view'.sections[s].rows[j].lineId),
                           LineOf(view'.sections[s].rows[j + 1].lineId))]_vars

\* a <= b on the strings of GLDateInputs
DateLeq(a, b) == a = b \/ DateLess(a, b)

\* the lines of account id the filter of the page asks for: the date of the
\* parent entry is in the range; a line without a parent entry is treated
\* as the page without a date filter treats it, which lists it
LinesAskedFor(id) ==
  {l \in {lines[k] : k \in 1..Len(lines)} :
     /\ l.accountId = id
     /\ Get(entries, l.entryId) # << >> =>
          /\ view.fromDate # "" => DateLeq(view.fromDate, Get(entries, l.entryId).date)
          /\ view.toDate # "" => DateLeq(Get(entries, l.entryId).date, view.toDate)}

\* the lines the page lists under account id
LinesListed(id) ==
  UNION {{LineOf(view.sections[s].rows[j].lineId) : j \in 1..Len(view.sections[s].rows)} :
           s \in {x \in 1..Len(view.sections) : view.sections[x].id = id}}

\* C26: General Ledger filtering.  For each account it shows, the page
\* lists exactly the lines whose parent entry has a date d with
\* from <= d <= to, an empty bound leaving that side open; an account has a
\* section only if it has a listed line; a line whose parent entry is
\* missing is listed or not regardless of a date filter being set.
C26_LedgerFiltering ==
  view.page = "general-ledger" =>
    /\ \A i \in 1..Len(accounts) :
         (view.filterAcct = "" \/ view.filterAcct = accounts[i].id)
           => LinesListed(accounts[i].id) = LinesAskedFor(accounts[i].id)
    /\ \A s \in 1..Len(view.sections) : view.sections[s].rows # << >>

(***************************************************************************)
(* The journal form from the first renderJournal on.  The user edits the   *)
(* draft while no post is running: an account on any line, a debit on the  *)
(* first line, a credit on the last line an extended draft can have.       *)
(***************************************************************************)
NextDraft ==
  \/ Navigate("journal")
  \/ NoTaskRunning /\ addJournalLine
  \/ \E idx \in 1..MaxDraftLines : NoTaskRunning /\ removeJournalLine(idx)
  \/ \E idx \in 1..MaxDraftLines : NoTaskRunning /\ updateJournalLine(idx, "accountId", "acc_1000")
  \/ NoTaskRunning /\ updateJournalLine(1, "debit", <<1>>)
  \/ NoTaskRunning /\ updateJournalLine(MaxDraftLines, "credit", <<1>>)
  \/ NoTaskRunning /\ editEntryDetails(today, "memo")
  \/ NoTaskRunning /\ clearJournal
  \/ \E t \in Slots : NoTaskRunning /\ postJournalEntry(t)
  \/ \E t \in Slots : postSavedEntry(t)
  \/ \E t \in Slots : postSavedLine(t)
  \/ \E t \in Slots : postFinished(t)

SpecDraft == Init /\ [][NextDraft]_vars

\* C27: draft size invariant.  Every step of renderJournal, addJournalLine,
\* removeJournalLine, updateJournalLine, clearJournal and postJournalEntry
\* leaves a draft of at least 2 lines, and a step that shortens the draft
\* starts from a draft of more than 2 lines: removeJournalLine does
\* nothing to a draft of 2 lines.
C27_DraftSize ==
  [][/\ Len(journalLines') >= 2
     /\ Len(journalLines') < Len(journalLines) => Len(journalLines) > 2]_vars

\* a line was removed from a draft of three lines (the credit was typed on
\* the third line) and an entry was posted, which cleared the draft
C27_Witness ==
  /\ currentPage = "journal"
  /\ Len(journalLines) = 2
  /\ journalLines[1].credit # << >> \/ journalLines[2].credit # << >>
  /\ entries # << >>

\* C28: indicator and commit agree.  A call of postJournalEntry passes its
\* balance check and its amount check exactly when the status indicator of
\* the draft shows 'Entry is balanced': a call that goes on to the line
\* check or to the commit has the indicator balanced, and a call rejected
\* by one of the two checks has it unbalanced.
C28_IndicatorAgrees ==
  [][/\ \A t \in Slots :
          PostStarts(t) => updateJournalTotals(journalLines) = "balance-ok"
     /\ (PostRejects /\ toast'.msg = "At least 2 lines with accounts and amounts required")
          => updateJournalTotals(journalLines) = "balance-ok"
     /\ (PostRejects /\ toast'.msg \in {"Entry not balanced! Debits must equal Credits",
                                        "Entry has no amounts"})
          => updateJournalTotals(journalLines) = "balance-err"]_vars

\* the step in which a running post or import stores its entry
CommitsEntry(t) ==
  /\ tasks[t].op \in PostingOps
  /\ tasks[t].pc = "saveEntry"
  /\ tasks'[t] # tasks[t]
  /\ entries' # entries

\* task u runs the same handler as task t over the same draft lines, or
\* over the same selected candidates
SameSource(t, u) ==
  /\ tasks[u].op = tasks[t].op
  /\ tasks[t].op = "postJournalEntry" => tasks[u].validLines = tasks[t].validLines
  /\ tasks[t].op = "importSelectedEntries" => tasks[u].selected = tasks[t].selected

\* C29: no double commit.  When a postJournalEntry or importSelectedEntries
\* stores its entry, no other invocation of the handler that was started
\* from the same draft, or from the same candidates, is running: the store
\* never gets two entries from one draft or one candidate.
C29_NoDoubleCommit ==
  [][\A t \in Slots, u \in Slots :
       (t # u /\ CommitsEntry(t)) => ~SameSource(t, u)]_vars

(***************************************************************************)
(* The dashboard and the Balance Sheet page.  Amounts are thousandths, so  *)
(* the dashboard's tolerance of 1 is 1000.                                 *)
(***************************************************************************)
\* accounts.reduce((s, a) => s + a.balance, 0)
SumBalance(accs) == SumSeq([i \in 1..Len(accs) |-> accs[i].balance])

\* accounts.filter(a => a.type === type).reduce(...) of renderDashboard
TotalOfType(accs, type) == SumBalance(OfType(accs, type))

\* the Financial Summary card of renderDashboard
DashboardSummary(accs) ==
  [page |-> "dashboard",
   totalAssets |-> TotalOfType(accs, "Asset"),
   totalLiab |-> TotalOfType(accs, "Liability"),
   totalRev |-> TotalOfType(accs, "Revenue"),
   totalExp |-> TotalOfType(accs, "Expense"),
   netIncome |-> TotalOfType(accs, "Revenue") - TotalOfType(accs, "Expense"),
   equity |-> TotalOfType(accs, "Asset") - TotalOfType(accs, "Liability"),
   balanced |-> Abs(TotalOfType(accs, "Asset")
                    - (TotalOfType(accs, "Liability")
                       + (TotalOfType(accs, "Asset") - TotalOfType(accs, "Liability")))) < 1000]

renderDashboard ==
  /\ currentPage' = "dashboard"
  /\ view' = DashboardSummary(getAccountBalances(accounts, lines))
  /\ UNCHANGED <<accounts, entries, lines, journalLines, jeDate, jeDesc,
                 pdfPreviewData, prevChk, tasks, uidCounter, toast>>

NextDashboard ==
  \/ renderDashboard
  \/ renderBalanceSheet

SpecDashboard == InitLedger /\ [][NextDashboard]_vars

\* Total Equity of a Balance Sheet page: account equity plus net income
SheetTotalEquity(sheet) == sheet.totalLiabEquity - SumBal(sheet.liabRows)

\* C30: dashboard and Balance Sheet agree.  When the user goes from one of
\* the two pages to the other over the same ledger, the dashboard's
\* Balanced / Unbalanced indicator equals the Balance Sheet's balanced flag
\* and the dashboard's equity figure equals the Balance Sheet's Total
\* Equity.
C30_DashboardAgrees ==
  [][/\ (view.page = "dashboard" /\ view'.page = "balance-sheet" /\ UNCHANGED <<accounts, lines>>)
          => /\ view'.balanced = view.balanced
             /\ SheetTotalEquity(view') = view.equity
     /\ (view.page = "balance-sheet" /\ view'.page = "dashboard" /\ UNCHANGED <<accounts, lines>>)
          => /\ view'.balanced = view.balanced
             /\ view'.equity = SheetTotalEquity(view)]_vars

TypeOK == uidCounter \in 0..MaxUid

====
